---- MODULE Spec2Model ----
(***************************************************************************)
(* Pod lifecycle of libpod's Runtime (libpod/runtime_pod.go): NewPod,      *)
(* RemovePod, GetPod, HasPod, LookupPod and Pods, run by concurrent        *)
(* callers.  Every blocking lock acquisition and every call into the       *)
(* State Store or the OCI / cgroup backend is a step of its own, so that   *)
(* the locks held and the work done so far can be read off each state.     *)
(***************************************************************************)
EXTENDS Integers, Sequences, FiniteSets, TLC

\* ------------------------------------------------------------------ bounds
\* calls begun over a whole run, and collaborator calls that may fail
MaxCalls == 2
MaxFailures == 1

\* ------------------------------------------------------------ the universe
Threads == {"t1", "t2"}
None == "none"
ExistingPods == {"p1", "p2"}
NewPodIDs == {"p3"}
PodIDs == ExistingPods \cup NewPodIDs
Ctrs == {"c1", "c2", "c3"}

ContainerStateUnknown == "Unknown"
ContainerStateConfigured == "Configured"
ContainerStateRunning == "Running"
ContainerStateStopped == "Stopped"
ContainerStatePaused == "Paused"
CtrStates == {ContainerStateUnknown, ContainerStateConfigured, ContainerStateRunning,
              ContainerStateStopped, ContainerStatePaused}

CgroupfsCgroupsManager == "cgroupfs"
SystemdCgroupsManager == "systemd"
OtherCgroupsManager == "other"
CgroupManagers == {CgroupfsCgroupsManager, SystemdCgroupsManager, OtherCgroupsManager}

\* errors: <<sentinel, context>>
NoErr == <<"nil", "">>
ErrRuntimeStopped == <<"ErrRuntimeStopped", "">>
ErrPodRemoved == <<"ErrPodRemoved", "">>
ErrNotImplemented == <<"ErrNotImplemented", "">>
ErrCtrExists(why) == <<"ErrCtrExists", why>>
ErrCtrStateInvalid(why) == <<"ErrCtrStateInvalid", why>>
ErrInvalidArg(why) == <<"ErrInvalidArg", why>>
ErrCollaborator(call) == <<"collaborator", call>>

\* strings the code inspects are sequences of characters
Str_slice == <<".", "s", "l", "i", "c", "e">>
Str_a_slice == <<"a">> \o Str_slice
CgroupfsDefaultCgroupParent == <<"/", "l", "p">>
SystemdDefaultCgroupParent == <<"m">> \o Str_slice
IDStr(p) == CASE p = "p1" -> <<"p", "1">>
              [] p = "p2" -> <<"p", "2">>
              [] p = "p3" -> <<"q", "3">>

VARIABLES
    rtValid,        \* r.valid
    cgroupManager,  \* r.config.CgroupManager
    rLockW,         \* r.lock: the thread holding it exclusively, or None
    rLockR,         \* r.lock: the threads holding it shared
    podLock,        \* p.lock: holder or None
    ctrLock,        \* ctr.lock: holder or None
    statePods,      \* State Store: pods, in AllPods order
    stateCtrs,      \* State Store: containers
    ctrPodOf,       \* State Store: the pod a container belongs to, or None
    depEdges,       \* State Store: <<d, c>> when container d depends on c
    podValid,       \* p.valid
    ctrValid,       \* ctr.valid
    podConfig,      \* p.config: Name, CgroupParent, UsePodCgroup
    podCgroupPath,  \* p.state.CgroupPath
    ctrState,       \* ctr.state.State, the in-memory view
    ociState,       \* the container's state in the OCI runtime
    execSessions,   \* ctr.state.ExecSessions is non-empty
    cgroupFs,       \* cgroup paths present on the host
    freeIDs,        \* pod IDs newPod has not handed out yet
    done,           \* backend work done so far: <<operation, container>>
    pc,             \* each thread's position ("ret": about to run its deferred unlocks)
    args,           \* each thread's current (or last) call
    ctrs,           \* RemovePod's local ctrs
    idx,            \* RemovePod's loop index into ctrs
    dependencies,   \* RemovePod's local dependencies map
    defers,         \* each thread's deferred unlocks, last pushed first
    err,            \* each thread's return value (error)
    val,            \* each thread's return value (result)
    log,            \* the steps of each thread's current (or last) call
    pre,            \* the store and validity flags when the call took r.lock
    callers,        \* the threads that make calls
    ncalls,         \* calls begun
    failures        \* collaborator failures so far

locks == <<rLockW, rLockR, podLock, ctrLock>>
store == <<statePods, stateCtrs>>
config == <<cgroupManager, ctrPodOf, depEdges, callers>>
flags == <<rtValid, podValid, ctrValid>>
podObj == <<podConfig, podCgroupPath, freeIDs>>
backend == <<ctrState, ociState, execSessions, cgroupFs, done>>
locals == <<ctrs, idx, dependencies>>
result == <<err, val>>
vars == <<locks, store, config, flags, podObj, backend, locals, result,
          pc, args, defers, log, pre, ncalls, failures>>

\* -------------------------------------------------------------- helpers
Range(s) == {s[i] : i \in 1..Len(s)}
Perms(S) == {s \in [1..Cardinality(S) -> S] : \A i, j \in 1..Cardinality(S) : s[i] = s[j] => i = j}
RemoveFromSeq(s, x) == SelectSeq(s, LAMBDA y : y # x)

\* strings.HasSuffix, path.Base and filepath.Join on character sequences
HasSuffix(s, suffix) ==
    /\ Len(s) >= Len(suffix)
    /\ SubSeq(s, Len(s) - Len(suffix) + 1, Len(s)) = suffix
HasPrefix(s, prefix) ==
    /\ Len(s) >= Len(prefix)
    /\ SubSeq(s, 1, Len(prefix)) = prefix
RECURSIVE StripTrailingSlashes(_)
StripTrailingSlashes(s) ==
    IF Len(s) > 0 /\ s[Len(s)] = "/" THEN StripTrailingSlashes(SubSeq(s, 1, Len(s) - 1)) ELSE s
LastSlash(s) ==
    IF \E i \in 1..Len(s) : s[i] = "/"
    THEN CHOOSE i \in 1..Len(s) : s[i] = "/" /\ \A j \in (i + 1)..Len(s) : s[j] # "/"
    ELSE 0
Base(s) ==
    IF s = <<>> THEN <<".">>
    ELSE IF StripTrailingSlashes(s) = <<>> THEN <<"/">>
    ELSE SubSeq(StripTrailingSlashes(s), LastSlash(StripTrailingSlashes(s)) + 1,
                Len(StripTrailingSlashes(s)))
\* filepath.Clean for paths without "." and ".." elements
RECURSIVE Squeeze(_)
Squeeze(s) ==
    IF Len(s) < 2 THEN s
    ELSE IF s[1] = "/" /\ s[2] = "/" THEN Squeeze(Tail(s))
    ELSE <<s[1]>> \o Squeeze(Tail(s))
Clean(s) ==
    IF s = <<>> THEN <<".">>
    ELSE IF StripTrailingSlashes(Squeeze(s)) = <<>> THEN <<"/">>
    ELSE StripTrailingSlashes(Squeeze(s))
Join(a, b) ==
    IF a = <<>> /\ b = <<>> THEN <<>>
    ELSE IF a = <<>> THEN Clean(b)
    ELSE IF b = <<>> THEN Clean(a)
    ELSE Clean(a \o <<"/">> \o b)

\* a collaborator call returns without error (TRUE) or fails (FALSE)
Outcomes == IF failures < MaxFailures THEN {TRUE, FALSE} ELSE {TRUE}
Charge(ok) == failures' = IF ok THEN failures ELSE failures + 1

Snapshot == [pods |-> statePods, ctrs |-> stateCtrs, podValid |-> podValid,
             ctrValid |-> ctrValid, ociState |-> ociState, ctrState |-> ctrState]

\* the value of pre for a thread that is in no call
NoSnapshot == [pods |-> <<>>, ctrs |-> {}, podValid |-> [p \in PodIDs |-> FALSE],
               ctrValid |-> [c \in Ctrs |-> FALSE],
               ociState |-> [c \in Ctrs |-> ContainerStateUnknown],
               ctrState |-> [c \in Ctrs |-> ContainerStateUnknown]]

NoArgs == [op |-> None]

\* ---------------------------------------------------------- State Store
\* the containers of pod p, the dependents of container c, pod lookup by ID
State_PodContainers(p) == {c \in stateCtrs : ctrPodOf[c] = p}
State_ContainerInUse(c) == {d \in stateCtrs : <<d, c>> \in depEdges}
State_HasPod(id) == \E p \in Range(statePods) : IDStr(p) = id

\* ------------------------------------------------------------------ Init
\* two pods read back from the State Store: p1 with two containers and a
\* persisted CgroupPath (p.state), p2 with one container and none
P1CgroupPath == CgroupfsDefaultCgroupParent \o <<"/">> \o IDStr("p1")
DepCandidates == {<<"c2", "c1">>, <<"c3", "c1">>}

InitBase ==
    /\ rtValid = TRUE
    /\ cgroupManager \in CgroupManagers
    /\ rLockW = None /\ rLockR = {}
    /\ podLock = [p \in PodIDs |-> None]
    /\ ctrLock = [c \in Ctrs |-> None]
    /\ statePods = <<"p1", "p2">>
    /\ stateCtrs = Ctrs
    /\ ctrPodOf = [c \in Ctrs |-> IF c = "c3" THEN "p2" ELSE "p1"]
    /\ depEdges \in SUBSET DepCandidates
    /\ podValid = [p \in PodIDs |-> p \in ExistingPods]
    /\ ctrValid = [c \in Ctrs |-> TRUE]
    /\ podConfig = [p \in PodIDs |->
                      [Name |-> IF p \in ExistingPods THEN IDStr(p) ELSE <<>>,
                       CgroupParent |-> IF p \in ExistingPods THEN CgroupfsDefaultCgroupParent ELSE <<>>,
                       UsePodCgroup |-> p = "p1"]]
    /\ podCgroupPath = [p \in PodIDs |-> IF p = "p1" THEN P1CgroupPath ELSE <<>>]
    /\ ociState \in {f \in [Ctrs -> CtrStates] :
                        /\ f["c2"] \in {ContainerStateRunning, ContainerStateStopped}
                        /\ f["c3"] = ContainerStateRunning}
    /\ ctrState = ociState
    /\ execSessions \in {f \in [Ctrs -> BOOLEAN] : ~f["c2"] /\ ~f["c3"]}
    /\ cgroupFs = {P1CgroupPath}
    \* the manager is read by NewPod and by RemovePod's cgroup step only, neither of
    \* which reads a container: the other managers are tried on fewer containers
    /\ \/ cgroupManager = CgroupfsCgroupsManager
       \/ /\ depEdges = {}
          /\ ociState["c1"] \in {ContainerStateRunning, ContainerStateConfigured}
          /\ execSessions = [c \in Ctrs |-> FALSE]
    /\ freeIDs = NewPodIDs
    /\ done = {}
    /\ pc = [t \in Threads |-> "idle"]
    /\ args = [t \in Threads |-> NoArgs]
    /\ ctrs = [t \in Threads |-> <<>>]
    /\ idx = [t \in Threads |-> 1]
    /\ dependencies = [t \in Threads |-> {}]
    /\ defers = [t \in Threads |-> <<>>]
    /\ err = [t \in Threads |-> NoErr]
    /\ val = [t \in Threads |-> None]
    /\ log = [t \in Threads |-> <<>>]
    /\ pre = [t \in Threads |-> NoSnapshot]
    /\ ncalls = 0
    /\ failures = 0

\* one goroutine makes the calls, one after the other
Init == InitBase /\ callers = {"t1"}

\* ------------------------------------------------------- steps of a call
Goto(t, l) == pc' = [pc EXCEPT ![t] = l]
Return(t, e) == /\ pc' = [pc EXCEPT ![t] = "ret"]
                /\ err' = [err EXCEPT ![t] = e]
Log(t, ev) == log' = [log EXCEPT ![t] = Append(@, ev)]
Defer(t, l) == defers' = [defers EXCEPT ![t] = <<l>> \o @]

\* a call starts: its arguments and locals are fresh
Begin(t, a) ==
    /\ pc[t] = "idle"
    /\ t \in callers
    /\ ncalls < MaxCalls
    /\ ncalls' = ncalls + 1
    /\ args' = [args EXCEPT ![t] = a]
    /\ pre' = [pre EXCEPT ![t] = Snapshot]

\* the deferred Unlock / RUnlock calls run, last deferred first, and the call returns
Unlocked(held, t, kind) ==
    [x \in DOMAIN held |-> IF <<kind, x>> \in Range(defers[t]) THEN None ELSE held[x]]
RunDefers(t) ==
    /\ rLockW' = IF <<"r.lock", "W">> \in Range(defers[t]) THEN None ELSE rLockW
    /\ rLockR' = IF <<"r.lock", "R">> \in Range(defers[t]) THEN rLockR \ {t} ELSE rLockR
    /\ podLock' = Unlocked(podLock, t, "p.lock")
    /\ ctrLock' = Unlocked(ctrLock, t, "ctr.lock")
    /\ defers' = [defers EXCEPT ![t] = <<>>]
Returns(t) ==
    /\ pc[t] = "ret"
    /\ RunDefers(t)
    /\ Goto(t, "idle")
    /\ args' = [args EXCEPT ![t] = NoArgs]
    /\ ctrs' = [ctrs EXCEPT ![t] = <<>>]
    /\ idx' = [idx EXCEPT ![t] = 1]
    /\ dependencies' = [dependencies EXCEPT ![t] = {}]
    /\ err' = [err EXCEPT ![t] = NoErr]
    /\ val' = [val EXCEPT ![t] = None]
    /\ log' = [log EXCEPT ![t] = <<>>]
    /\ pre' = [pre EXCEPT ![t] = NoSnapshot]
    /\ UNCHANGED <<store, config, flags, podObj, backend, ncalls, failures>>

\* ---------------------------------------------------------------- RemovePod
Pod(t) == args[t].p
Ctr(t) == ctrs[t][idx[t]]

\* variant: RemovePod does not look at r.valid
RemovePod_LockRuntime_NoValidCheck(t) ==
    /\ \E p \in PodIDs \ freeIDs, removeCtrs \in BOOLEAN, force \in BOOLEAN :
         Begin(t, [op |-> "RemovePod", p |-> p, removeCtrs |-> removeCtrs, force |-> force])
    /\ rLockW = None /\ rLockR = {}
    /\ rLockW' = t
    /\ Defer(t, <<"r.lock", "W">>)
    /\ Log(t, <<"Lock", "r.lock">>)
    /\ Goto(t, "rp_lock_p") /\ UNCHANGED err
    /\ UNCHANGED <<rLockR, podLock, ctrLock, store, config, flags, podObj, backend,
                   locals, val, failures>>

\* variant: RemovePod takes the runtime lock shared (RLock) instead of exclusively
RemovePod_LockRuntime_Shared(t) ==
    /\ \E p \in PodIDs \ freeIDs, removeCtrs \in BOOLEAN, force \in BOOLEAN :
         Begin(t, [op |-> "RemovePod", p |-> p, removeCtrs |-> removeCtrs, force |-> force])
    /\ rLockW = None
    /\ rLockR' = rLockR \cup {t}
    /\ Defer(t, <<"r.lock", "R">>)
    /\ Log(t, <<"Lock", "r.lock">>)
    /\ IF ~rtValid THEN Return(t, ErrRuntimeStopped)
                   ELSE Goto(t, "rp_lock_p") /\ UNCHANGED err
    /\ UNCHANGED <<rLockW, podLock, ctrLock, store, config, flags, podObj, backend,
                   locals, val, failures>>

\* r.lock.Lock(); defer r.lock.Unlock(); if !r.valid
RemovePod_LockRuntime(t) ==
    /\ \E p \in PodIDs \ freeIDs, removeCtrs \in BOOLEAN, force \in BOOLEAN :
         Begin(t, [op |-> "RemovePod", p |-> p, removeCtrs |-> removeCtrs, force |-> force])
    /\ rLockW = None /\ rLockR = {}
    /\ rLockW' = t
    /\ Defer(t, <<"r.lock", "W">>)
    /\ Log(t, <<"Lock", "r.lock">>)
    /\ IF ~rtValid THEN Return(t, ErrRuntimeStopped)
                   ELSE Goto(t, "rp_lock_p") /\ UNCHANGED err
    /\ UNCHANGED <<rLockR, podLock, ctrLock, store, config, flags, podObj, backend,
                   locals, val, failures>>

\* variant: the removed-pod return comes before the deferred Unlock is registered
RemovePod_LockPod_ReturnsLocked(t) ==
    /\ pc[t] = "rp_lock_p"
    /\ podLock[Pod(t)] = None
    /\ podLock' = [podLock EXCEPT ![Pod(t)] = t]
    /\ Log(t, <<"Lock", Pod(t)>>)
    /\ IF ~podValid[Pod(t)] THEN Return(t, ErrPodRemoved) /\ UNCHANGED defers
                            ELSE Goto(t, "rp_ctrs") /\ Defer(t, <<"p.lock", Pod(t)>>)
                                 /\ UNCHANGED err
    /\ UNCHANGED <<rLockW, rLockR, ctrLock, store, config, flags, podObj, backend,
                   locals, val, args, pre, ncalls, failures>>

\* variant: RemovePod does not look at p.valid
RemovePod_LockPod_NoValidCheck(t) ==
    /\ pc[t] = "rp_lock_p"
    /\ podLock[Pod(t)] = None
    /\ podLock' = [podLock EXCEPT ![Pod(t)] = t]
    /\ Defer(t, <<"p.lock", Pod(t)>>)
    /\ Log(t, <<"Lock", Pod(t)>>)
    /\ Goto(t, "rp_ctrs") /\ UNCHANGED err
    /\ UNCHANGED <<rLockW, rLockR, ctrLock, store, config, flags, podObj, backend,
                   locals, val, args, pre, ncalls, failures>>

\* p.lock.Lock(); defer p.lock.Unlock(); if !p.valid
RemovePod_LockPod(t) ==
    /\ pc[t] = "rp_lock_p"
    /\ podLock[Pod(t)] = None
    /\ podLock' = [podLock EXCEPT ![Pod(t)] = t]
    /\ Defer(t, <<"p.lock", Pod(t)>>)
    /\ Log(t, <<"Lock", Pod(t)>>)
    /\ IF ~podValid[Pod(t)] THEN Return(t, ErrPodRemoved)
                            ELSE Goto(t, "rp_ctrs") /\ UNCHANGED err
    /\ UNCHANGED <<rLockW, rLockR, ctrLock, store, config, flags, podObj, backend,
                   locals, val, args, pre, ncalls, failures>>

\* variant: the pod-not-empty check with the negation of removeCtrs dropped
RemovePod_PodContainers_ChecksWithRemoveCtrs(t) ==
    /\ pc[t] = "rp_ctrs"
    /\ \E ok \in Outcomes :
        /\ Charge(ok)
        /\ Log(t, <<"PodContainers", Pod(t)>>)
        /\ IF ~ok
           THEN Return(t, ErrCollaborator("PodContainers")) /\ UNCHANGED ctrs
           ELSE \E got \in Perms(State_PodContainers(Pod(t))) :
                  /\ ctrs' = [ctrs EXCEPT ![t] = got]
                  /\ IF args[t].removeCtrs /\ Len(got) > 0
                     THEN Return(t, ErrCtrExists("pod contains containers"))
                     ELSE Goto(t, "rp_lock_c") /\ UNCHANGED err
    /\ UNCHANGED <<locks, store, config, flags, podObj, backend, idx, dependencies,
                   val, args, defers, pre, ncalls>>

\* ctrs, err := r.state.PodContainers(p); numCtrs; if !removeCtrs && numCtrs > 0
RemovePod_PodContainers(t) ==
    /\ pc[t] = "rp_ctrs"
    /\ \E ok \in Outcomes :
        /\ Charge(ok)
        /\ Log(t, <<"PodContainers", Pod(t)>>)
        /\ IF ~ok
           THEN Return(t, ErrCollaborator("PodContainers")) /\ UNCHANGED ctrs
           ELSE \E got \in Perms(State_PodContainers(Pod(t))) :
                  /\ ctrs' = [ctrs EXCEPT ![t] = got]
                  /\ IF ~args[t].removeCtrs /\ Len(got) > 0
                     THEN Return(t, ErrCtrExists("pod contains containers"))
                     ELSE Goto(t, "rp_lock_c") /\ UNCHANGED err
    /\ UNCHANGED <<locks, store, config, flags, podObj, backend, idx, dependencies,
                   val, args, defers, pre, ncalls>>

\* variant: the container lock is taken without a deferred Unlock
RemovePod_LockCtr_NoDefer(t) ==
    /\ pc[t] = "rp_lock_c"
    /\ IF idx[t] > Len(ctrs[t])
       THEN /\ Goto(t, "rp_deps")
            /\ UNCHANGED <<ctrLock, defers, log>>
       ELSE /\ ctrLock[Ctr(t)] = None
            /\ ctrLock' = [ctrLock EXCEPT ![Ctr(t)] = t]
            /\ UNCHANGED defers
            /\ Log(t, <<"Lock", Ctr(t)>>)
            /\ Goto(t, "rp_sync")
    /\ UNCHANGED <<rLockW, rLockR, podLock, store, config, flags, podObj, backend,
                   locals, result, args, pre, ncalls, failures>>

\* variant: only the first container of the list is locked
RemovePod_LockCtr_FirstOnly(t) ==
    /\ pc[t] = "rp_lock_c"
    /\ IF idx[t] > Len(ctrs[t])
       THEN /\ Goto(t, "rp_deps")
            /\ UNCHANGED <<ctrLock, defers, log>>
       ELSE IF idx[t] > 1
       THEN /\ Goto(t, "rp_sync")
            /\ UNCHANGED <<ctrLock, defers, log>>
       ELSE /\ ctrLock[Ctr(t)] = None
            /\ ctrLock' = [ctrLock EXCEPT ![Ctr(t)] = t]
            /\ Defer(t, <<"ctr.lock", Ctr(t)>>)
            /\ Log(t, <<"Lock", Ctr(t)>>)
            /\ Goto(t, "rp_sync")
    /\ UNCHANGED <<rLockW, rLockR, podLock, store, config, flags, podObj, backend,
                   locals, result, args, pre, ncalls, failures>>

\* variant: a Stopped container is not locked
RemovePod_LockCtr_SkipsStopped(t) ==
    /\ pc[t] = "rp_lock_c"
    /\ IF idx[t] > Len(ctrs[t])
       THEN /\ Goto(t, "rp_deps")
            /\ UNCHANGED <<ctrLock, defers, log>>
       ELSE IF ociState[Ctr(t)] = ContainerStateStopped
       THEN /\ Goto(t, "rp_sync")
            /\ UNCHANGED <<ctrLock, defers, log>>
       ELSE /\ ctrLock[Ctr(t)] = None
            /\ ctrLock' = [ctrLock EXCEPT ![Ctr(t)] = t]
            /\ Defer(t, <<"ctr.lock", Ctr(t)>>)
            /\ Log(t, <<"Lock", Ctr(t)>>)
            /\ Goto(t, "rp_sync")
    /\ UNCHANGED <<rLockW, rLockR, podLock, store, config, flags, podObj, backend,
                   locals, result, args, pre, ncalls, failures>>

\* for _, ctr := range ctrs { ctr.lock.Lock(); defer ctr.lock.Unlock()
RemovePod_LockCtr(t) ==
    /\ pc[t] = "rp_lock_c"
    /\ IF idx[t] > Len(ctrs[t])
       THEN /\ Goto(t, "rp_deps")
            /\ UNCHANGED <<ctrLock, defers, log>>
       ELSE /\ ctrLock[Ctr(t)] = None
            /\ ctrLock' = [ctrLock EXCEPT ![Ctr(t)] = t]
            /\ Defer(t, <<"ctr.lock", Ctr(t)>>)
            /\ Log(t, <<"Lock", Ctr(t)>>)
            /\ Goto(t, "rp_sync")
    /\ UNCHANGED <<rLockW, rLockR, podLock, store, config, flags, podObj, backend,
                   locals, result, args, pre, ncalls, failures>>

\* variant: force overrides the Paused check
GateError_ForceOverridesPaused(t, c, state, execs) ==
    IF state = ContainerStatePaused /\ ~args[t].force THEN ErrCtrStateInvalid("paused")
    ELSE IF state = ContainerStateUnknown THEN ErrCtrStateInvalid("invalid state")
    ELSE IF state = ContainerStateRunning /\ ~args[t].force THEN ErrCtrStateInvalid("running")
    ELSE IF execs /\ ~args[t].force THEN ErrCtrStateInvalid("exec sessions")
    ELSE NoErr

\* the state checks that follow syncContainer in the locking loop
GateError(t, c, state, execs) ==
    IF state = ContainerStatePaused THEN ErrCtrStateInvalid("paused")
    ELSE IF state = ContainerStateUnknown THEN ErrCtrStateInvalid("invalid state")
    ELSE IF state = ContainerStateRunning /\ ~args[t].force THEN ErrCtrStateInvalid("running")
    ELSE IF execs /\ ~args[t].force THEN ErrCtrStateInvalid("exec sessions")
    ELSE NoErr

\* ctr.syncContainer(), then the checks on ctr.state
RemovePod_SyncCtr(t) ==
    /\ pc[t] = "rp_sync"
    /\ \E ok \in Outcomes :
        /\ Charge(ok)
        /\ Log(t, <<"syncContainer", Ctr(t)>>)
        /\ IF ~ok
           THEN Return(t, ErrCollaborator("syncContainer")) /\ UNCHANGED ctrState
           ELSE /\ ctrState' = [ctrState EXCEPT ![Ctr(t)] = ociState[Ctr(t)]]
                /\ IF GateError(t, Ctr(t), ociState[Ctr(t)], execSessions[Ctr(t)]) # NoErr
                   THEN Return(t, GateError(t, Ctr(t), ociState[Ctr(t)], execSessions[Ctr(t)]))
                   ELSE Goto(t, "rp_inuse") /\ UNCHANGED err
    /\ UNCHANGED <<locks, store, config, flags, podObj, ociState, execSessions, cgroupFs,
                   done, locals, val, args, defers, pre, ncalls>>

\* variant: a Running container is stopped inside the locking loop when force is set
RemovePod_ContainerInUse_StopsInLoop(t) ==
    /\ pc[t] = "rp_inuse"
    /\ \E ok \in Outcomes :
        /\ Charge(ok)
        /\ IF ~ok
           THEN Return(t, ErrCollaborator("ContainerInUse")) /\ UNCHANGED <<idx, dependencies>>
           ELSE /\ dependencies' = [dependencies EXCEPT
                                      ![t] = @ \cup {<<Ctr(t), State_ContainerInUse(Ctr(t))>>}]
                /\ idx' = [idx EXCEPT ![t] = @ + 1]
                /\ Goto(t, "rp_lock_c") /\ UNCHANGED err
        /\ IF ok /\ args[t].force /\ ociState[Ctr(t)] = ContainerStateRunning
           THEN /\ ociState' = [ociState EXCEPT ![Ctr(t)] = ContainerStateStopped]
                /\ log' = [log EXCEPT ![t] = @ \o <<<<"ContainerInUse", Ctr(t)>>,
                                                    <<"stopContainer", Ctr(t)>>>>]
           ELSE Log(t, <<"ContainerInUse", Ctr(t)>>) /\ UNCHANGED ociState
    /\ UNCHANGED <<locks, store, config, flags, podObj, ctrState, execSessions, cgroupFs, done, ctrs,
                   val, args, defers, pre, ncalls>>

\* deps, err := r.state.ContainerInUse(ctr); dependencies[ctr.ID()] = deps
RemovePod_ContainerInUse(t) ==
    /\ pc[t] = "rp_inuse"
    /\ \E ok \in Outcomes :
        /\ Charge(ok)
        /\ Log(t, <<"ContainerInUse", Ctr(t)>>)
        /\ IF ~ok
           THEN Return(t, ErrCollaborator("ContainerInUse")) /\ UNCHANGED <<idx, dependencies>>
           ELSE /\ dependencies' = [dependencies EXCEPT
                                      ![t] = @ \cup {<<Ctr(t), State_ContainerInUse(Ctr(t))>>}]
                /\ idx' = [idx EXCEPT ![t] = @ + 1]
                /\ Goto(t, "rp_lock_c") /\ UNCHANGED err
    /\ UNCHANGED <<locks, store, config, flags, podObj, backend, ctrs,
                   val, args, defers, pre, ncalls>>

\* for ctr, deps := range dependencies: a dependent that is no key of the map
DepKeys(t) == {e[1] : e \in dependencies[t]}
DepOutside_AnyDependent(t) == \E e \in dependencies[t] : e[2] # {}
DepOutside(t) == \E e \in dependencies[t] : \E dep \in e[2] : dep \notin DepKeys(t)
RemovePod_CheckDependencies(t) ==
    /\ pc[t] = "rp_deps"
    /\ idx' = [idx EXCEPT ![t] = 1]
    /\ IF DepOutside(t)
       THEN Return(t, ErrCtrExists("depends on container not in pod"))
       ELSE Goto(t, "rp_stop") /\ UNCHANGED err
    /\ UNCHANGED <<locks, store, config, flags, podObj, backend, ctrs, dependencies,
                   val, args, defers, log, pre, ncalls, failures>>

\* variant: with force every container is stopped, whatever its state
RemovePod_StopContainer_AnyState(t) ==
    /\ pc[t] = "rp_stop"
    /\ IF ~args[t].force \/ idx[t] > Len(ctrs[t])
       THEN /\ idx' = [idx EXCEPT ![t] = 1]
            /\ Goto(t, "rp_cleanup")
            /\ UNCHANGED <<ociState, done, err, log, failures>>
       ELSE IF FALSE
       THEN /\ Goto(t, "rp_execstop")
            /\ UNCHANGED <<ociState, done, err, log, failures, idx>>
       ELSE \E ok \in Outcomes :
            /\ Charge(ok)
            /\ Log(t, <<"stopContainer", Ctr(t)>>)
            /\ UNCHANGED idx
            /\ IF ~ok
               THEN Return(t, ErrCollaborator("stopContainer")) /\ UNCHANGED <<ociState, done>>
               ELSE /\ ociState' = [ociState EXCEPT ![Ctr(t)] = ContainerStateStopped]
                    /\ done' = done \cup {<<"stopContainer", Ctr(t)>>}
                    /\ Goto(t, "rp_stopsync") /\ UNCHANGED err
    /\ UNCHANGED <<locks, store, config, flags, podObj, ctrState, execSessions, cgroupFs,
                   ctrs, dependencies, val, args, defers, pre, ncalls>>

\* variant: the forced stop phase is skipped
RemovePod_StopContainer_Skipped(t) ==
    /\ pc[t] = "rp_stop"
    /\ idx' = [idx EXCEPT ![t] = 1]
    /\ Goto(t, "rp_cleanup")
    /\ UNCHANGED <<locks, store, config, flags, podObj, backend, ctrs, dependencies,
                   result, args, defers, log, pre, ncalls, failures>>

\* if force { for _, ctr := range ctrs { if ctr.state.State == ContainerStateRunning {
\*     r.ociRuntime.stopContainer(ctr, ctr.StopTimeout())
RemovePod_StopContainer(t) ==
    /\ pc[t] = "rp_stop"
    /\ IF ~args[t].force \/ idx[t] > Len(ctrs[t])
       THEN /\ idx' = [idx EXCEPT ![t] = 1]
            /\ Goto(t, "rp_cleanup")
            /\ UNCHANGED <<ociState, done, err, log, failures>>
       ELSE IF ctrState[Ctr(t)] # ContainerStateRunning
       THEN /\ Goto(t, "rp_execstop")
            /\ UNCHANGED <<ociState, done, err, log, failures, idx>>
       ELSE \E ok \in Outcomes :
            /\ Charge(ok)
            /\ Log(t, <<"stopContainer", Ctr(t)>>)
            /\ UNCHANGED idx
            /\ IF ~ok
               THEN Return(t, ErrCollaborator("stopContainer")) /\ UNCHANGED <<ociState, done>>
               ELSE /\ ociState' = [ociState EXCEPT ![Ctr(t)] = ContainerStateStopped]
                    /\ done' = done \cup {<<"stopContainer", Ctr(t)>>}
                    /\ Goto(t, "rp_stopsync") /\ UNCHANGED err
    /\ UNCHANGED <<locks, store, config, flags, podObj, ctrState, execSessions, cgroupFs,
                   ctrs, dependencies, val, args, defers, pre, ncalls>>

\* Sync again to pick up stopped state
RemovePod_StopSync(t) ==
    /\ pc[t] = "rp_stopsync"
    /\ \E ok \in Outcomes :
        /\ Charge(ok)
        /\ Log(t, <<"syncContainer", Ctr(t)>>)
        /\ IF ~ok
           THEN Return(t, ErrCollaborator("syncContainer")) /\ UNCHANGED ctrState
           ELSE /\ ctrState' = [ctrState EXCEPT ![Ctr(t)] = ociState[Ctr(t)]]
                /\ Goto(t, "rp_execstop") /\ UNCHANGED err
    /\ UNCHANGED <<locks, store, config, flags, podObj, ociState, execSessions, cgroupFs,
                   done, locals, val, args, defers, pre, ncalls>>

\* if len(ctr.state.ExecSessions) != 0 { r.ociRuntime.execStopContainer(...)
RemovePod_ExecStopContainer(t) ==
    /\ pc[t] = "rp_execstop"
    /\ IF ~execSessions[Ctr(t)]
       THEN /\ idx' = [idx EXCEPT ![t] = @ + 1]
            /\ Goto(t, "rp_stop")
            /\ UNCHANGED <<done, err, log, failures>>
       ELSE \E ok \in Outcomes :
            /\ Charge(ok)
            /\ Log(t, <<"execStopContainer", Ctr(t)>>)
            /\ IF ~ok
               THEN Return(t, ErrCollaborator("execStopContainer")) /\ UNCHANGED <<done, idx>>
               ELSE /\ done' = done \cup {<<"execStopContainer", Ctr(t)>>}
                    /\ idx' = [idx EXCEPT ![t] = @ + 1]
                    /\ Goto(t, "rp_stop") /\ UNCHANGED err
    /\ UNCHANGED <<locks, store, config, flags, podObj, ctrState, ociState, execSessions,
                   cgroupFs, ctrs, dependencies, val, args, defers, pre, ncalls>>

\* variant: a failing call ends the removal loop (break) instead of returning its error
Teardown_BreaksLoop(t, at, call, next, advance) ==
    /\ pc[t] = at
    /\ \E ok \in Outcomes :
        /\ Charge(ok)
        /\ Log(t, <<call, Ctr(t)>>)
        /\ IF ~ok
           THEN Goto(t, "rp_rmctrs") /\ UNCHANGED <<done, idx, err>>
           ELSE /\ done' = done \cup {<<call, Ctr(t)>>}
                /\ idx' = [idx EXCEPT ![t] = @ + advance]
                /\ Goto(t, next) /\ UNCHANGED err
    /\ UNCHANGED <<locks, store, config, flags, podObj, ctrState, ociState, execSessions,
                   cgroupFs, ctrs, dependencies, val, args, defers, pre, ncalls>>

\* a per-container backend call of the removal loop: on success go to step `next`
Teardown(t, at, call, next, advance) ==
    /\ pc[t] = at
    /\ \E ok \in Outcomes :
        /\ Charge(ok)
        /\ Log(t, <<call, Ctr(t)>>)
        /\ IF ~ok
           THEN Return(t, ErrCollaborator(call)) /\ UNCHANGED <<done, idx>>
           ELSE /\ done' = done \cup {<<call, Ctr(t)>>}
                /\ idx' = [idx EXCEPT ![t] = @ + advance]
                /\ Goto(t, next) /\ UNCHANGED err
    /\ UNCHANGED <<locks, store, config, flags, podObj, ctrState, ociState, execSessions,
                   cgroupFs, ctrs, dependencies, val, args, defers, pre, ncalls>>

\* for _, ctr := range ctrs { ctr.cleanup()
RemovePod_Cleanup(t) ==
    IF pc[t] = "rp_cleanup" /\ idx[t] > Len(ctrs[t])
    THEN /\ Goto(t, "rp_rmctrs")
         /\ UNCHANGED <<locks, store, config, flags, podObj, backend, locals, result,
                        args, defers, log, pre, ncalls, failures>>
    ELSE Teardown(t, "rp_cleanup", "cleanup", "rp_teardown", 0)

\* ctr.teardownStorage()
RemovePod_TeardownStorage(t) ==
    Teardown(t, "rp_teardown", "teardownStorage", "rp_delete", 0)

\* variant: ctr.delete is called whatever the container's state
RemovePod_Delete_Always(t) ==
    Teardown(t, "rp_delete", "delete", "rp_cleanup", 1)

\* if ctr.state.State != ContainerStateConfigured { ctr.delete(ctx) }
RemovePod_Delete(t) ==
    IF pc[t] = "rp_delete" /\ ctrState[Ctr(t)] = ContainerStateConfigured
    THEN /\ idx' = [idx EXCEPT ![t] = @ + 1]
         /\ Goto(t, "rp_cleanup")
         /\ UNCHANGED <<locks, store, config, flags, podObj, backend, ctrs, dependencies,
                        result, args, defers, log, pre, ncalls, failures>>
    ELSE Teardown(t, "rp_delete", "delete", "rp_cleanup", 1)

\* variant: the error of r.state.RemovePodContainers is ignored
RemovePod_RemovePodContainers_IgnoresError(t) ==
    /\ pc[t] = "rp_rmctrs"
    /\ \E ok \in Outcomes :
        /\ Charge(ok)
        /\ Log(t, <<"RemovePodContainers", Pod(t)>>)
        /\ IF ~ok
           THEN Goto(t, "rp_invalidate") /\ UNCHANGED <<stateCtrs, err>>
           ELSE /\ stateCtrs' = stateCtrs \ State_PodContainers(Pod(t))
                /\ Goto(t, "rp_invalidate") /\ UNCHANGED err
    /\ UNCHANGED <<locks, statePods, config, flags, podObj, backend, locals,
                   val, args, defers, pre, ncalls>>

\* variant: the State Store drops every container, not only the pod's
RemovePod_RemovePodContainers_AllContainers(t) ==
    /\ pc[t] = "rp_rmctrs"
    /\ \E ok \in Outcomes :
        /\ Charge(ok)
        /\ Log(t, <<"RemovePodContainers", Pod(t)>>)
        /\ IF ~ok
           THEN Return(t, ErrCollaborator("RemovePodContainers")) /\ UNCHANGED stateCtrs
           ELSE /\ stateCtrs' = {}
                /\ Goto(t, "rp_invalidate") /\ UNCHANGED err
    /\ UNCHANGED <<locks, statePods, config, flags, podObj, backend, locals,
                   val, args, defers, pre, ncalls>>

\* r.state.RemovePodContainers(p)
RemovePod_RemovePodContainers(t) ==
    /\ pc[t] = "rp_rmctrs"
    /\ \E ok \in Outcomes :
        /\ Charge(ok)
        /\ Log(t, <<"RemovePodContainers", Pod(t)>>)
        /\ IF ~ok
           THEN Return(t, ErrCollaborator("RemovePodContainers")) /\ UNCHANGED stateCtrs
           ELSE /\ stateCtrs' = stateCtrs \ State_PodContainers(Pod(t))
                /\ Goto(t, "rp_invalidate") /\ UNCHANGED err
    /\ UNCHANGED <<locks, statePods, config, flags, podObj, backend, locals,
                   val, args, defers, pre, ncalls>>

\* variant: the pod is marked invalid together with its containers
RemovePod_MarkCtrsInvalid_AlsoPod(t) ==
    /\ pc[t] = "rp_invalidate"
    /\ ctrValid' = [c \in Ctrs |-> IF c \in Range(ctrs[t]) THEN FALSE ELSE ctrValid[c]]
    /\ podValid' = [podValid EXCEPT ![Pod(t)] = FALSE]
    /\ Log(t, <<"invalidate", Range(ctrs[t])>>)
    /\ Goto(t, "rp_cgroup")
    /\ UNCHANGED <<locks, store, config, rtValid, podObj, backend, locals,
                   result, args, defers, pre, ncalls, failures>>

\* for _, ctr := range ctrs { ctr.valid = false }
RemovePod_MarkCtrsInvalid(t) ==
    /\ pc[t] = "rp_invalidate"
    /\ ctrValid' = [c \in Ctrs |-> IF c \in Range(ctrs[t]) THEN FALSE ELSE ctrValid[c]]
    /\ Log(t, <<"invalidate", Range(ctrs[t])>>)
    /\ Goto(t, "rp_cgroup")
    /\ UNCHANGED <<locks, store, config, rtValid, podValid, podObj, backend, locals,
                   result, args, defers, pre, ncalls, failures>>

\* variant: ErrCgroupDeleted from cgroups.Load is returned like any other error
RemovePod_CgroupLoad_DeletedIsError(t) ==
    /\ pc[t] = "rp_cgroup"
    /\ IF podCgroupPath[Pod(t)] = <<>> \/ cgroupManager = SystemdCgroupsManager
       THEN Goto(t, "rp_rmpod") /\ UNCHANGED <<err, log, failures>>
       ELSE IF cgroupManager # CgroupfsCgroupsManager
       THEN Return(t, ErrInvalidArg("unknown cgroups manager")) /\ UNCHANGED <<log, failures>>
       ELSE \E ok \in Outcomes :
            /\ Charge(ok)
            /\ Log(t, <<"cgroups.Load", podCgroupPath[Pod(t)]>>)
            /\ IF ~ok THEN Return(t, ErrCollaborator("cgroups.Load"))
               ELSE IF podCgroupPath[Pod(t)] \notin cgroupFs
               THEN Return(t, <<"ErrCgroupDeleted", "">>)
               ELSE Goto(t, "rp_cgdelete") /\ UNCHANGED err
    /\ UNCHANGED <<locks, store, config, flags, podObj, backend, locals,
                   val, args, defers, pre, ncalls>>

\* if p.state.CgroupPath != "" { switch p.runtime.config.CgroupManager {
\*   case CgroupfsCgroupsManager: cgroups.Load(cgroups.V1, cgroups.StaticPath(...))
RemovePod_CgroupLoad(t) ==
    /\ pc[t] = "rp_cgroup"
    /\ IF podCgroupPath[Pod(t)] = <<>> \/ cgroupManager = SystemdCgroupsManager
       THEN Goto(t, "rp_rmpod") /\ UNCHANGED <<err, log, failures>>
       ELSE IF cgroupManager # CgroupfsCgroupsManager
       THEN Return(t, ErrInvalidArg("unknown cgroups manager")) /\ UNCHANGED <<log, failures>>
       ELSE \E ok \in Outcomes :
            /\ Charge(ok)
            /\ Log(t, <<"cgroups.Load", podCgroupPath[Pod(t)]>>)
            /\ IF ~ok THEN Return(t, ErrCollaborator("cgroups.Load"))
               ELSE IF podCgroupPath[Pod(t)] \notin cgroupFs
               THEN Goto(t, "rp_rmpod") /\ UNCHANGED err    \* ErrCgroupDeleted
               ELSE Goto(t, "rp_cgdelete") /\ UNCHANGED err
    /\ UNCHANGED <<locks, store, config, flags, podObj, backend, locals,
                   val, args, defers, pre, ncalls>>

\* cgroup.Delete()
RemovePod_CgroupDelete(t) ==
    /\ pc[t] = "rp_cgdelete"
    /\ \E ok \in Outcomes :
        /\ Charge(ok)
        /\ Log(t, <<"cgroup.Delete", podCgroupPath[Pod(t)]>>)
        /\ IF ~ok
           THEN Return(t, ErrCollaborator("cgroup.Delete")) /\ UNCHANGED cgroupFs
           ELSE /\ cgroupFs' = cgroupFs \ {podCgroupPath[Pod(t)]}
                /\ Goto(t, "rp_rmpod") /\ UNCHANGED err
    /\ UNCHANGED <<locks, store, config, flags, podObj, ctrState, ociState, execSessions,
                   done, locals, val, args, defers, pre, ncalls>>

\* r.state.RemovePod(p)
RemovePod_StateRemovePod(t) ==
    /\ pc[t] = "rp_rmpod"
    /\ \E ok \in Outcomes :
        /\ Charge(ok)
        /\ Log(t, <<"RemovePod", Pod(t)>>)
        /\ IF ~ok
           THEN Return(t, ErrCollaborator("RemovePod")) /\ UNCHANGED statePods
           ELSE /\ statePods' = RemoveFromSeq(statePods, Pod(t))
                /\ Goto(t, "rp_markpod") /\ UNCHANGED err
    /\ UNCHANGED <<locks, stateCtrs, config, flags, podObj, backend, locals,
                   val, args, defers, pre, ncalls>>

\* variant: the pod is returned as removed with its valid flag left set
RemovePod_MarkPodInvalid_KeepsFlag(t) ==
    /\ pc[t] = "rp_markpod"
    /\ Log(t, <<"invalidate", Pod(t)>>)
    /\ Return(t, NoErr)
    /\ UNCHANGED <<locks, store, config, flags, podObj, backend, locals,
                   val, args, defers, pre, ncalls, failures>>

\* p.valid = false; return nil
RemovePod_MarkPodInvalid(t) ==
    /\ pc[t] = "rp_markpod"
    /\ podValid' = [podValid EXCEPT ![Pod(t)] = FALSE]
    /\ Log(t, <<"invalidate", Pod(t)>>)
    /\ Return(t, NoErr)
    /\ UNCHANGED <<locks, store, config, rtValid, ctrValid, podObj, backend, locals,
                   val, args, defers, pre, ncalls, failures>>

RemovePod(t) ==
    \/ RemovePod_LockRuntime(t)
    \/ RemovePod_LockPod(t)
    \/ RemovePod_PodContainers(t)
    \/ RemovePod_LockCtr(t)
    \/ RemovePod_SyncCtr(t)
    \/ RemovePod_ContainerInUse(t)
    \/ RemovePod_CheckDependencies(t)
    \/ RemovePod_StopContainer(t)
    \/ RemovePod_StopSync(t)
    \/ RemovePod_ExecStopContainer(t)
    \/ RemovePod_Cleanup(t)
    \/ RemovePod_TeardownStorage(t)
    \/ RemovePod_Delete(t)
    \/ RemovePod_RemovePodContainers(t)
    \/ RemovePod_MarkCtrsInvalid(t)
    \/ RemovePod_CgroupLoad(t)
    \/ RemovePod_CgroupDelete(t)
    \/ RemovePod_StateRemovePod(t)
    \/ RemovePod_MarkPodInvalid(t)

\* ------------------------------------------------------------------- NewPod
\* the PodCreateOption values callers pass
WithPodName(name) == [kind |-> "WithPodName", v |-> name]
WithPodCgroupParent(path) == [kind |-> "WithPodCgroupParent", v |-> path]
WithPodCgroups == [kind |-> "WithPodCgroups", v |-> <<>>]
FailingOption == [kind |-> "fails", v |-> <<>>]

OptionLists ==
    {<<>>, <<WithPodCgroups>>, <<WithPodName(<<"w">>)>>,
     <<WithPodCgroupParent(Str_a_slice)>>,
     <<WithPodCgroupParent(Str_a_slice), WithPodCgroups>>,
     <<WithPodCgroupParent(<<"/", "x">>)>>,
     <<WithPodCgroupParent(<<"/", "x">>), WithPodCgroups>>,
     <<WithPodCgroupParent(<<"x", "/">> \o Str_a_slice \o <<"/">>), WithPodCgroups>>,
     <<WithPodCgroupParent(Str_a_slice \o <<"/", "x">>)>>,
     <<WithPodCgroups, FailingOption>>}

\* for _, option := range options { if err := option(pod); err != nil
RECURSIVE ApplyOptions(_, _)
ApplyOptions(cfg, options) ==
    IF options = <<>> THEN [ok |-> TRUE, cfg |-> cfg]
    ELSE IF Head(options).kind = "fails" THEN [ok |-> FALSE, cfg |-> cfg]
    ELSE ApplyOptions(
           CASE Head(options).kind = "WithPodName" -> [cfg EXCEPT !.Name = Head(options).v]
             [] Head(options).kind = "WithPodCgroupParent" ->
                    [cfg EXCEPT !.CgroupParent = Head(options).v]
             [] Head(options).kind = "WithPodCgroups" -> [cfg EXCEPT !.UsePodCgroup = TRUE],
           Tail(options))

\* switch r.config.CgroupManager: the parent's sanity, its default, the pod's cgroup path
CgroupParentCheck(manager, cfg, id) ==
    IF manager = CgroupfsCgroupsManager
    THEN IF cfg.CgroupParent = <<>>
         THEN [err |-> NoErr, cfg |-> [cfg EXCEPT !.CgroupParent = CgroupfsDefaultCgroupParent],
               path |-> <<>>]
         ELSE IF HasSuffix(Base(cfg.CgroupParent), Str_slice)
         THEN [err |-> ErrInvalidArg("systemd slice received as cgroup parent when using cgroupfs"),
               cfg |-> cfg, path |-> <<>>]
         ELSE [err |-> NoErr, cfg |-> cfg, path |-> <<>>]
    ELSE IF manager = SystemdCgroupsManager
    THEN IF cfg.CgroupParent # <<>>
            /\ (Len(cfg.CgroupParent) < 6 \/ ~HasSuffix(Base(cfg.CgroupParent), Str_slice))
         THEN [err |-> ErrInvalidArg("did not receive systemd slice as cgroup parent"),
               cfg |-> cfg, path |-> <<>>]
         ELSE [err |-> NoErr,
               cfg |-> IF cfg.CgroupParent = <<>>
                       THEN [cfg EXCEPT !.CgroupParent = SystemdDefaultCgroupParent] ELSE cfg,
               path |-> IF cfg.UsePodCgroup
                        THEN Join(IF cfg.CgroupParent = <<>> THEN SystemdDefaultCgroupParent
                                  ELSE cfg.CgroupParent, IDStr(id))
                        ELSE <<>>]
    ELSE [err |-> ErrInvalidArg("unsupported CGroup manager"), cfg |-> cfg, path |-> <<>>]

EmptyPodConfig == [Name |-> <<>>, CgroupParent |-> <<>>, UsePodCgroup |-> FALSE]
GeneratedName(id) == <<"n">> \o IDStr(id)

\* what NewPod does between taking r.lock and returning, when the collaborator call
\* `failing` (if any) fails: the error, the pod as configured, whether it was added
NewPodOutcome(id, options, failing) ==
    LET applied == ApplyOptions(EmptyPodConfig, options)
        named == IF applied.cfg.Name = <<>>
                 THEN [applied.cfg EXCEPT !.Name = GeneratedName(id)] ELSE applied.cfg
        checked == CgroupParentCheck(cgroupManager, named, id)
    IN IF failing = "newPod"
       THEN [err |-> ErrCollaborator("newPod"), failed |-> TRUE, added |-> FALSE,
             cfg |-> EmptyPodConfig, path |-> <<>>, calls |-> <<"newPod">>]
       ELSE IF ~applied.ok
       THEN [err |-> <<"option", "error running pod create option">>, failed |-> FALSE,
             added |-> FALSE, cfg |-> applied.cfg, path |-> <<>>, calls |-> <<"newPod">>]
       ELSE IF applied.cfg.Name = <<>> /\ failing = "generateName"
       THEN [err |-> ErrCollaborator("generateName"), failed |-> TRUE, added |-> FALSE,
             cfg |-> applied.cfg, path |-> <<>>, calls |-> <<"newPod", "generateName">>]
       ELSE IF checked.err # NoErr
       THEN [err |-> checked.err, failed |-> FALSE, added |-> FALSE,
             cfg |-> checked.cfg, path |-> <<>>, calls |-> <<"newPod">>]
       ELSE IF failing = "AddPod"
       THEN [err |-> ErrCollaborator("AddPod"), failed |-> TRUE, added |-> FALSE,
             cfg |-> checked.cfg, path |-> checked.path, calls |-> <<"newPod", "AddPod">>]
       ELSE [err |-> ErrNotImplemented, failed |-> FALSE, added |-> TRUE,
             cfg |-> checked.cfg, path |-> checked.path, calls |-> <<"newPod", "AddPod">>]

\* r.lock.Lock(); defer r.lock.Unlock(); if !r.valid
\* (NewPod is called while newPod has an ID left to hand out: NewPodIDs bounds the pods created)
NewPod_LockRuntime(t) ==
    /\ freeIDs # {}
    /\ \E options \in OptionLists : Begin(t, [op |-> "NewPod", options |-> options])
    /\ rLockW = None /\ rLockR = {}
    /\ rLockW' = t
    /\ Defer(t, <<"r.lock", "W">>)
    /\ Log(t, <<"Lock", "r.lock">>)
    /\ IF ~rtValid THEN Return(t, ErrRuntimeStopped)
                   ELSE Goto(t, "np_create") /\ UNCHANGED err
    /\ UNCHANGED <<rLockR, podLock, ctrLock, store, config, flags, podObj, backend,
                   locals, val, failures>>

\* newPod, the options, generateName, pod.valid = true, the cgroup parent, AddPod, return
NewPod_Create(t) ==
    /\ pc[t] = "np_create"
    /\ freeIDs # {}
    /\ \E id \in freeIDs, failing \in {"none", "newPod", "generateName", "AddPod"} :
        \E out \in {NewPodOutcome(id, args[t].options, failing)} :
        /\ failing # "none" => out.failed /\ failures < MaxFailures
        /\ Charge(~out.failed)
        /\ log' = [log EXCEPT ![t] = @ \o [i \in 1..Len(out.calls) |-> <<out.calls[i], id>>]]
        /\ Return(t, out.err)
        /\ val' = [val EXCEPT ![t] = None]
        /\ IF out.added
           THEN /\ statePods' = Append(statePods, id)
                /\ podValid' = [podValid EXCEPT ![id] = TRUE]
                /\ podConfig' = [podConfig EXCEPT ![id] = out.cfg]
                /\ podCgroupPath' = [podCgroupPath EXCEPT ![id] = out.path]
                /\ freeIDs' = freeIDs \ {id}
           ELSE UNCHANGED <<statePods, podValid, podObj>>
    /\ UNCHANGED <<locks, stateCtrs, config, rtValid, ctrValid, backend, locals,
                   args, defers, pre, ncalls>>

NewPod(t) == NewPod_LockRuntime(t) \/ NewPod_Create(t)

\* ------------------------------------------- GetPod, HasPod, LookupPod, Pods
\* the State Store's lookups: by ID; by ID, name or unambiguous ID prefix
State_Pod(id) ==
    IF \E p \in Range(statePods) : IDStr(p) = id
    THEN [err |-> NoErr, val |-> CHOOSE p \in Range(statePods) : IDStr(p) = id]
    ELSE [err |-> <<"ErrNoSuchPod", "">>, val |-> None]
PrefixMatches(s) == {p \in Range(statePods) : HasPrefix(IDStr(p), s)}
State_LookupPod(idOrName) ==
    IF \E p \in Range(statePods) : IDStr(p) = idOrName THEN State_Pod(idOrName)
    ELSE IF \E p \in Range(statePods) : podConfig[p].Name = idOrName
    THEN [err |-> NoErr, val |-> CHOOSE p \in Range(statePods) : podConfig[p].Name = idOrName]
    ELSE IF Cardinality(PrefixMatches(idOrName)) = 1
    THEN [err |-> NoErr, val |-> CHOOSE p \in PrefixMatches(idOrName) : TRUE]
    ELSE IF PrefixMatches(idOrName) = {} THEN [err |-> <<"ErrNoSuchPod", "">>, val |-> None]
    ELSE [err |-> <<"ErrPodExists", "more than one result">>, val |-> None]

\* the PodFilter values callers pass
PodFilters == {"any", "usesPodCgroup", "hasContainers", "nameIsID"}
Filter(f, p) ==
    CASE f = "any" -> TRUE
      [] f = "usesPodCgroup" -> podConfig[p].UsePodCgroup
      [] f = "hasContainers" -> State_PodContainers(p) # {}
      [] f = "nameIsID" -> podConfig[p].Name = IDStr(p)
FilterLists == {<<>>, <<"usesPodCgroup">>, <<"hasContainers", "nameIsID">>,
                <<"any", "usesPodCgroup", "hasContainers">>}

\* variant: include = filter(pod), the last filter deciding
RECURSIVE Include_LastFilterDecides(_, _, _)
Include_LastFilterDecides(include, filters, pod) ==
    IF filters = <<>> THEN include
    ELSE Include_LastFilterDecides(Filter(Head(filters), pod), Tail(filters), pod)

\* include := true; for _, filter := range filters { include = include && filter(pod) }
RECURSIVE Include(_, _, _)
Include(include, filters, pod) ==
    IF filters = <<>> THEN include
    ELSE Include(include /\ Filter(Head(filters), pod), Tail(filters), pod)
\* for _, pod := range pods { ... if include { podsFiltered = append(podsFiltered, pod) } }
RECURSIVE PodsFiltered(_, _)
PodsFiltered(pods, filters) ==
    IF pods = <<>> THEN <<>>
    ELSE (IF Include(TRUE, filters, Head(pods)) THEN <<Head(pods)>> ELSE <<>>)
         \o PodsFiltered(Tail(pods), filters)

LookupKeys == {IDStr("p1"), IDStr("p3"), <<"p">>, <<"q">>, <<"w">>}
ReaderCalls ==
    {[op |-> "GetPod", id |-> IDStr(p)] : p \in {"p1", "p3"}}
    \cup {[op |-> "HasPod", id |-> IDStr(p)] : p \in {"p2", "p3"}}
    \cup {[op |-> "LookupPod", id |-> k] : k \in LookupKeys}
    \cup {[op |-> "Pods", filters |-> fl] : fl \in FilterLists}

\* r.lock.RLock(); defer r.lock.RUnlock(); if !r.valid
Reader_RLockRuntime(t) ==
    /\ \E a \in ReaderCalls : Begin(t, a)
    /\ rLockW = None
    /\ rLockR' = rLockR \cup {t}
    /\ Defer(t, <<"r.lock", "R">>)
    /\ Log(t, <<"RLock", "r.lock">>)
    /\ IF ~rtValid THEN Return(t, ErrRuntimeStopped)
                   ELSE Goto(t, "rd_state") /\ UNCHANGED err
    /\ UNCHANGED <<rLockW, podLock, ctrLock, store, config, flags, podObj, backend,
                   locals, val, failures>>

\* what the State Store answers when its call succeeds
ReaderAnswer(a) ==
    CASE a.op = "GetPod" -> State_Pod(a.id)
      [] a.op = "HasPod" -> [err |-> NoErr, val |-> State_HasPod(a.id)]
      [] a.op = "LookupPod" -> State_LookupPod(a.id)
      [] a.op = "Pods" -> [err |-> NoErr, val |-> PodsFiltered(statePods, a.filters)]
StateCallOf(a) ==
    CASE a.op = "GetPod" -> "Pod" [] a.op = "HasPod" -> "HasPod"
      [] a.op = "LookupPod" -> "LookupPod" [] a.op = "Pods" -> "AllPods"

\* return r.state.Pod(id) / HasPod(id) / LookupPod(idOrName); AllPods and the filter loop
Reader_State(t) ==
    /\ pc[t] = "rd_state"
    /\ \E ok \in Outcomes :
        /\ Charge(ok)
        /\ Log(t, <<StateCallOf(args[t]), "">>)
        /\ IF ~ok
           THEN Return(t, ErrCollaborator(StateCallOf(args[t]))) /\ UNCHANGED val
           ELSE /\ Return(t, ReaderAnswer(args[t]).err)
                /\ val' = [val EXCEPT ![t] = ReaderAnswer(args[t]).val]
    /\ UNCHANGED <<locks, store, config, flags, podObj, backend, locals,
                   args, defers, pre, ncalls>>

Reader(t) == Reader_RLockRuntime(t) \/ Reader_State(t)

\* ----------------------------------------------------------------- Shutdown
\* the runtime is torn down: r.lock.Lock(); if !r.valid; r.valid = false
Shutdown(t) ==
    /\ Begin(t, [op |-> "Shutdown"])
    /\ rLockW = None /\ rLockR = {}
    /\ rLockW' = t
    /\ Defer(t, <<"r.lock", "W">>)
    /\ Log(t, <<"Lock", "r.lock">>)
    /\ rtValid' = FALSE
    /\ Return(t, IF rtValid THEN NoErr ELSE ErrRuntimeStopped)
    /\ UNCHANGED <<rLockR, podLock, ctrLock, store, config, podValid, ctrValid, podObj,
                   backend, locals, val, failures>>

Next == \E t \in Threads :
    RemovePod(t) \/ NewPod(t) \/ Reader(t) \/ Shutdown(t) \/ Returns(t)

Spec == Init /\ [][Next]_vars

\* two goroutines call the API concurrently
InitConc == InitBase /\ callers = Threads
SpecConc == InitConc /\ [][Next]_vars

\* ------------------------------------------------------------------- retry
\* the caller of a failed RemovePod makes the same call again: the failed call's
\* deferred unlocks run, and the new call takes r.lock; the one goroutine there
\* is finds it free.  The new call carries the error and the steps of the failed one.
Retry(t) ==
    /\ pc[t] = "ret" /\ args[t].op = "RemovePod" /\ err[t] # NoErr
    /\ t \in callers /\ callers = {t}
    /\ ncalls < MaxCalls
    /\ ncalls' = ncalls + 1
    /\ args' = [args EXCEPT ![t] = [op |-> "RemovePod", p |-> @.p, removeCtrs |-> @.removeCtrs,
                                    force |-> @.force,
                                    retryOf |-> [err |-> err[t], log |-> log[t]]]]
    /\ pre' = [pre EXCEPT ![t] = Snapshot]
    /\ rLockW = t /\ UNCHANGED <<rLockW, rLockR>>
    /\ podLock' = Unlocked(podLock, t, "p.lock")
    /\ ctrLock' = Unlocked(ctrLock, t, "ctr.lock")
    /\ defers' = [defers EXCEPT ![t] = <<<<"r.lock", "W">>>>]
    /\ log' = [log EXCEPT ![t] = <<<<"Lock", "r.lock">>>>]
    /\ ctrs' = [ctrs EXCEPT ![t] = <<>>]
    /\ idx' = [idx EXCEPT ![t] = 1]
    /\ dependencies' = [dependencies EXCEPT ![t] = {}]
    /\ val' = [val EXCEPT ![t] = None]
    /\ IF ~rtValid THEN Return(t, ErrRuntimeStopped)
                   ELSE Goto(t, "rp_lock_p") /\ err' = [err EXCEPT ![t] = NoErr]
    /\ UNCHANGED <<store, config, flags, podObj, backend, failures>>

NextRetry == Next \/ \E t \in Threads : Retry(t)
SpecRetry == Init /\ [][NextRetry]_vars

\* ---------------------------------------------- holders of a container lock
\* goroutines of the container API: each takes the lock of one container, holds
\* no other lock meanwhile, and releases it; each acquisition is a call begun
Holders == {"h1", "h2"}
HolderLock(h, c) ==
    /\ ncalls < MaxCalls
    /\ ncalls' = ncalls + 1
    /\ \A d \in Ctrs : ctrLock[d] # h
    /\ ctrLock[c] = None
    /\ ctrLock' = [ctrLock EXCEPT ![c] = h]
    /\ UNCHANGED <<rLockW, rLockR, podLock, store, config, flags, podObj, backend, locals,
                   result, pc, args, defers, log, pre, failures>>
HolderUnlock(h) ==
    /\ \E c \in Ctrs : ctrLock[c] = h /\ ctrLock' = [ctrLock EXCEPT ![c] = None]
    /\ UNCHANGED <<rLockW, rLockR, podLock, store, config, flags, podObj, backend, locals,
                   result, pc, args, defers, log, pre, ncalls, failures>>

\* the steps of a call that has taken r.lock, up to and including its return
Continue(t) ==
    \/ RemovePod_LockPod(t)
    \/ RemovePod_PodContainers(t)
    \/ RemovePod_LockCtr(t)
    \/ RemovePod_SyncCtr(t)
    \/ RemovePod_ContainerInUse(t)
    \/ RemovePod_CheckDependencies(t)
    \/ RemovePod_StopContainer(t)
    \/ RemovePod_StopSync(t)
    \/ RemovePod_ExecStopContainer(t)
    \/ RemovePod_Cleanup(t)
    \/ RemovePod_TeardownStorage(t)
    \/ RemovePod_Delete(t)
    \/ RemovePod_RemovePodContainers(t)
    \/ RemovePod_MarkCtrsInvalid(t)
    \/ RemovePod_CgroupLoad(t)
    \/ RemovePod_CgroupDelete(t)
    \/ RemovePod_StateRemovePod(t)
    \/ RemovePod_MarkPodInvalid(t)
    \/ NewPod_Create(t)
    \/ Reader_State(t)
    \/ Returns(t)

\* two goroutines call the pod API, beside the holders; a pod of two containers,
\* the first running, with exec sessions or not, the second stopped, and a pod
\* of one running container
InitFair ==
    /\ InitConc
    /\ cgroupManager = CgroupfsCgroupsManager
    /\ depEdges = {}
    /\ ociState["c1"] = ContainerStateRunning
    /\ ociState["c2"] = ContainerStateStopped
NextFair ==
    \/ Next
    \/ \E h \in Holders, c \in Ctrs : HolderLock(h, c)
    \/ \E h \in Holders : HolderUnlock(h)
\* a goroutine that can take its next step takes it (a State Store or backend
\* call returns, a free lock is acquired); a holder releases its lock
\* (every step of Continue changes pc, every release changes ctrLock)
SpecFair ==
    /\ InitFair /\ [][NextFair]_vars
    /\ \A t \in Threads : WF_pc(Continue(t))
    /\ \A h \in Holders : WF_ctrLock(HolderUnlock(h))

\* ======================================================================
\* Properties.  A call is observed in the state where it is about to return
\* (pc = "ret"): its error and result are set, its log holds the steps it
\* took, pre holds the store and the flags as the call found them, and only
\* the deferred unlocks remain to run.
\* ======================================================================
AtReturn(t, op) == pc[t] = "ret" /\ args[t].op = op
Made(t, call) == {i \in 1..Len(log[t]) : log[t][i][1] = call}
MadeOn(t, call, x) == {i \in 1..Len(log[t]) : log[t][i] = <<call, x>>}
MembersAtCall(t) == {c \in pre[t].ctrs : ctrPodOf[c] = args[t].p}
\* the call met no failing State Store / backend call and a running runtime
Undisturbed(t) == err[t][1] # "collaborator" /\ err[t] # ErrRuntimeStopped
TeardownCalls == {"stopContainer", "execStopContainer", "cleanup", "teardownStorage", "delete"}
MutatingCalls == TeardownCalls \cup {"RemovePodContainers", "cgroup.Delete", "RemovePod", "invalidate"}
StoreAndFlagsUntouched(t) ==
    /\ statePods = pre[t].pods /\ stateCtrs = pre[t].ctrs
    /\ podValid = pre[t].podValid /\ ctrValid = pre[t].ctrValid
NotEmptyErr == ErrCtrExists("pod contains containers")
DependsErr == ErrCtrExists("depends on container not in pod")
IsValidationErr(e) == e = NotEmptyErr \/ e = DependsErr \/ e[1] = "ErrCtrStateInvalid"

\* C1: NewPod on a valid runtime, when every option succeeds, the cgroup parent
\* passes the check for the configured manager and AddPod succeeds, returns the
\* created pod and no error, and the pod is in the State Store and found by
\* GetPod / HasPod / LookupPod.  (The code returns nil, ErrNotImplemented.)
C1_NewPodReturnsCreatedPod ==
    \A t \in Threads :
        (/\ AtReturn(t, "NewPod")
         /\ Undisturbed(t)
         /\ ApplyOptions(EmptyPodConfig, args[t].options).ok
         /\ CgroupParentCheck(cgroupManager,
                ApplyOptions(EmptyPodConfig, args[t].options).cfg, "p3").err = NoErr)
        => /\ err[t] = NoErr
           /\ val[t] \in Range(statePods) \ Range(pre[t].pods)
           /\ State_HasPod(IDStr(val[t]))
           /\ State_Pod(IDStr(val[t])).val = val[t]
           /\ State_LookupPod(IDStr(val[t])).val = val[t]
\* a NewPod whose options, cgroup parent check and AddPod all succeeded
C1_Witness ==
    \E t \in Threads :
        /\ AtReturn(t, "NewPod") /\ Undisturbed(t)
        /\ Made(t, "AddPod") # {}
        /\ "p3" \in Range(statePods) /\ "p3" \notin Range(pre[t].pods)
        /\ State_HasPod(IDStr("p3")) /\ podValid["p3"]

\* C2: a RemovePod call that returns a validation error (pod not empty, a
\* Paused, Unknown, Running-without-force or exec-sessions-without-force member,
\* a dependent outside the pod) has made no stopContainer, execStopContainer,
\* cleanup, teardownStorage, delete, store removal or invalidation, and the
\* store, every validity flag and every container's runtime state are as the
\* call found them.
C2_ValidationFailureChangesNothing ==
    \A t \in Threads :
        (AtReturn(t, "RemovePod") /\ IsValidationErr(err[t]))
        => /\ \A call \in MutatingCalls : Made(t, call) = {}
           /\ StoreAndFlagsUntouched(t)
           /\ ociState = pre[t].ociState
C2_Witness ==
    \E t \in Threads :
        /\ AtReturn(t, "RemovePod") /\ err[t] = DependsErr
        /\ args[t].force /\ Len(ctrs[t]) = 2
        /\ \E c \in Range(ctrs[t]) : ociState[c] = ContainerStateRunning

\* C3: RemovePod(p, removeCtrs = false, force) on a valid pod with at least one
\* member returns the pod-not-empty error (ErrCtrExists) for both values of
\* force and any member states, when the runtime is running and PodContainers
\* answers; in every case the pod and its members stay in the store and valid.
C3_NonEmptyPodIsKept ==
    \A t \in Threads :
        (/\ AtReturn(t, "RemovePod") /\ ~args[t].removeCtrs
         /\ pre[t].podValid[args[t].p] /\ MembersAtCall(t) # {})
        => /\ Undisturbed(t) => err[t] = NotEmptyErr
           /\ err[t] # NoErr
           /\ args[t].p \in Range(statePods) /\ podValid[args[t].p]
           /\ \A c \in MembersAtCall(t) : c \in stateCtrs /\ ctrValid[c]
C3_Witness ==
    \E t \in Threads :
        /\ AtReturn(t, "RemovePod") /\ err[t] = NotEmptyErr /\ args[t].force
        /\ \E c \in MembersAtCall(t) : ociState[c] = ContainerStatePaused

\* the members' dependents as the call found them, and the state checks on the members
DependentsAtCall(t, c) == {d \in pre[t].ctrs : <<d, c>> \in depEdges}
OutsideDependent(t) ==
    \E c \in MembersAtCall(t) : \E d \in DependentsAtCall(t, c) : d \notin MembersAtCall(t)
Blocked(t) == \E c \in MembersAtCall(t) :
                 pre[t].ociState[c] \in {ContainerStatePaused, ContainerStateUnknown}
Busy(t) == \E c \in MembersAtCall(t) :
              pre[t].ociState[c] = ContainerStateRunning \/ execSessions[c]
Gated(t) == \E c \in MembersAtCall(t) :
               GateError(t, c, pre[t].ociState[c], execSessions[c]) # NoErr
RemovalOfValidPod(t, removeCtrs) ==
    /\ AtReturn(t, "RemovePod") /\ args[t].removeCtrs = removeCtrs
    /\ pre[t].podValid[args[t].p] /\ Undisturbed(t)

\* C4: RemovePod(p, removeCtrs = true, force) on a running runtime whose store
\* and sync calls answer: a Paused or Unknown member makes the call fail with
\* ErrCtrStateInvalid for both values of force; where no member is Paused or
\* Unknown, a Running member or one with exec sessions makes it fail with
\* ErrCtrStateInvalid exactly when force is false.  Whenever the call fails
\* with ErrCtrStateInvalid no container's runtime state has changed.
C4_StateGating ==
    \A t \in Threads :
        RemovalOfValidPod(t, TRUE)
        => /\ Blocked(t) => err[t][1] = "ErrCtrStateInvalid"
           /\ (Busy(t) /\ ~Blocked(t)) => (err[t][1] = "ErrCtrStateInvalid" <=> ~args[t].force)
           /\ err[t][1] = "ErrCtrStateInvalid"
                => (Blocked(t) \/ Busy(t)) /\ ociState = pre[t].ociState
C4_Witness ==
    \E t \in Threads :
        /\ RemovalOfValidPod(t, TRUE) /\ args[t].force
        /\ err[t] = ErrCtrStateInvalid("paused")
        /\ \E c \in MembersAtCall(t) : ociState[c] = ContainerStateRunning

\* C5 as stated: RemovePod(p, true, force) fails with the dependency error
\* whenever a container outside the pod depends on a member, and then nothing
\* was stopped, torn down, deleted or removed.
C5_DependencyErrorWheneverOutsideDependent ==
    \A t \in Threads :
        (RemovalOfValidPod(t, TRUE) /\ OutsideDependent(t))
        => /\ err[t] = DependsErr
           /\ \A call \in MutatingCalls : Made(t, call) = {}
           /\ StoreAndFlagsUntouched(t)
\* C5 as amended: with a dependent outside the pod the call always fails and
\* nothing is stopped, torn down, deleted or removed; the error is the
\* dependency error when every member passes the state checks (these are made
\* first, and their ErrCtrStateInvalid is returned otherwise); dependents that
\* are members never cause the dependency error.
C5_OutsideDependentBlocksRemoval ==
    \A t \in Threads :
        RemovalOfValidPod(t, TRUE)
        => /\ OutsideDependent(t)
                => /\ ~Gated(t) => err[t] = DependsErr
                   /\ err[t] \in {DependsErr} \cup {ErrCtrStateInvalid(w) :
                          w \in {"paused", "invalid state", "running", "exec sessions"}}
                   /\ Gated(t) => err[t] # DependsErr
                   /\ \A call \in MutatingCalls : Made(t, call) = {}
                   /\ StoreAndFlagsUntouched(t)
           /\ err[t] = DependsErr => OutsideDependent(t)
C5_Witness ==
    \E t \in Threads :
        /\ RemovalOfValidPod(t, TRUE) /\ err[t] = DependsErr
        /\ \E c, d \in MembersAtCall(t) : d \in DependentsAtCall(t, c)

\* the forced removal of the members, in the order the claim gives
Pos(t, call, x) == CHOOSE i \in MadeOn(t, call, x) : TRUE
ForcedRemovalDone(t) ==
    /\ \A c \in MembersAtCall(t) :
          /\ MadeOn(t, "stopContainer", c) # {}
          /\ MadeOn(t, "cleanup", c) # {} /\ MadeOn(t, "teardownStorage", c) # {}
          /\ MadeOn(t, "delete", c) # {}
          /\ Pos(t, "cleanup", c) < Pos(t, "teardownStorage", c)
          /\ Pos(t, "teardownStorage", c) < Pos(t, "delete", c)
          /\ ociState[c] = ContainerStateStopped
          /\ c \notin stateCtrs /\ ~ctrValid[c]
    /\ \A i \in Made(t, "stopContainer") : \A j \in Made(t, "cleanup") : i < j
    /\ \A i \in Made(t, "delete") : \A j \in Made(t, "RemovePodContainers") : i < j
PodGone(t) ==
    /\ args[t].p \notin Range(statePods) /\ ~State_HasPod(IDStr(args[t].p))
    /\ ~podValid[args[t].p]
    /\ \A i \in Made(t, "RemovePodContainers") : \A j \in Made(t, "RemovePod") : i < j
RunningMembersOnly(t) ==
    /\ RemovalOfValidPod(t, TRUE) /\ args[t].force
    /\ MembersAtCall(t) # {} /\ ~OutsideDependent(t)
    /\ \A c \in MembersAtCall(t) : pre[t].ociState[c] = ContainerStateRunning
PodPath(t) == podCgroupPath[args[t].p]

\* C6 as stated: RemovePod(p, true, true) on a valid pod of Running members
\* without outside dependents stops, cleans up, tears down and deletes each
\* member, removes them from the store, removes the pod's cgroup if it has a
\* cgroup path, removes the pod and returns success.
C6_ForcedRemovalRemovesCgroup ==
    \A t \in Threads :
        RunningMembersOnly(t)
        => /\ err[t] = NoErr
           /\ ForcedRemovalDone(t)
           /\ PodPath(t) # <<>> => PodPath(t) \notin cgroupFs
           /\ PodGone(t)
\* C6 as amended: the same, except that the pod's cgroup is removed only under
\* the cgroupfs manager; under systemd it is neither loaded nor deleted, and
\* under any other manager value a pod with a cgroup path makes the call fail
\* with ErrInvalidArg once its members are removed, the pod staying in the
\* store and valid.
C6_ForcedRemoval ==
    \A t \in Threads :
        RunningMembersOnly(t)
        => /\ ForcedRemovalDone(t)
           /\ IF PodPath(t) # <<>> /\ cgroupManager \notin {CgroupfsCgroupsManager, SystemdCgroupsManager}
              THEN /\ err[t] = ErrInvalidArg("unknown cgroups manager")
                   /\ args[t].p \in Range(statePods) /\ podValid[args[t].p]
              ELSE err[t] = NoErr /\ PodGone(t)
           /\ (PodPath(t) # <<>> /\ cgroupManager = CgroupfsCgroupsManager)
                => PodPath(t) \notin cgroupFs
           /\ cgroupManager # CgroupfsCgroupsManager
                => Made(t, "cgroups.Load") = {} /\ Made(t, "cgroup.Delete") = {}
C6_Witness ==
    \E t \in Threads :
        /\ RunningMembersOnly(t) /\ err[t] = NoErr
        /\ Cardinality(MembersAtCall(t)) = 2
        /\ PodPath(t) # <<>> /\ Made(t, "cgroup.Delete") # {}

HoldsNothing(t) ==
    /\ rLockW # t /\ t \notin rLockR
    /\ \A p \in PodIDs : podLock[p] # t
    /\ \A c \in Ctrs : ctrLock[c] # t
LockRank(x) == IF x = "r.lock" THEN 1 ELSE IF x \in PodIDs THEN 2 ELSE 3
LockSteps(t) == Made(t, "Lock")

\* C8: RemovePod takes locks in the order runtime lock, the pod's lock, member
\* container locks, and once it has returned (by any path: success, runtime
\* stopped, pod removed, a validation failure, a backend or store failure) it
\* holds no lock.
C8_LockOrderAndRelease ==
    \A t \in Threads :
        /\ pc[t] = "idle" => HoldsNothing(t)
        /\ (\E p \in PodIDs : podLock[p] = t) => rLockW = t
        /\ \A c \in Ctrs : ctrLock[c] = t => rLockW = t /\ podLock[ctrPodOf[c]] = t
        /\ args[t].op = "RemovePod"
             => \A i, j \in LockSteps(t) :
                   i < j => LockRank(log[t][i][2]) <= LockRank(log[t][j][2])
C8_Witness ==
    /\ \A t \in Threads : pc[t] = "idle" /\ HoldsNothing(t)
    /\ failures = 1 /\ stateCtrs = Ctrs
    /\ {"c1", "c2"} \subseteq {e[2] : e \in {x \in done : x[1] = "cleanup"}}

\* C9: every mutating step of RemovePod (stopContainer, execStopContainer,
\* cleanup, teardownStorage, delete, RemovePodContainers, marking containers
\* invalid, cgroup deletion, the store's RemovePod, marking the pod invalid) is
\* taken by a thread that holds the runtime lock exclusively, the pod's lock and
\* the lock of every member container.
HoldsAll(t) ==
    /\ rLockW = t /\ rLockR = {}
    /\ podLock[args[t].p] = t
    /\ \A c \in MembersAtCall(t) : ctrLock[c] = t
C9_MutationsUnderAllLocks ==
    [][\A t \in Threads :
          (/\ args[t].op = "RemovePod"
           /\ Len(log'[t]) = Len(log[t]) + 1
           /\ log'[t][Len(log'[t])][1] \in MutatingCalls)
          => HoldsAll(t)]_vars
C9_Witness ==
    \E t \in Threads :
        /\ args[t].op = "RemovePod" /\ pc[t] = "rp_markpod"
        /\ Cardinality(MembersAtCall(t)) = 2
        /\ Made(t, "stopContainer") # {} /\ Made(t, "cgroup.Delete") # {}

\* C10 as stated: no validation outcome of RemovePod is decided while a
\* member container's lock is not yet held.
C10_AllMembersLockedBeforeValidation ==
    \A t \in Threads :
        (AtReturn(t, "RemovePod") /\ IsValidationErr(err[t]))
        => \A c \in Range(ctrs[t]) : ctrLock[c] = t
\* C10 as amended: the pod-not-empty check is made before any container lock is
\* taken; a member's state checks are made with the locks of that member and of
\* the members before it in the list held (those after it are not locked yet);
\* the dependency check is made with every member's lock held.
C10_LocksHeldAtEachCheck ==
    \A t \in Threads :
        AtReturn(t, "RemovePod")
        => /\ err[t] = NotEmptyErr => \A c \in Ctrs : ctrLock[c] # t
           /\ err[t][1] = "ErrCtrStateInvalid"
                => \A i \in 1..Len(ctrs[t]) : (ctrLock[ctrs[t][i]] = t) <=> (i <= idx[t])
           /\ err[t] = DependsErr => \A c \in Range(ctrs[t]) : ctrLock[c] = t
C10_Witness ==
    \E t \in Threads :
        /\ AtReturn(t, "RemovePod") /\ err[t][1] = "ErrCtrStateInvalid"
        /\ Len(ctrs[t]) = 2 /\ idx[t] = 1
        /\ ctrLock[ctrs[t][1]] = t /\ ctrLock[ctrs[t][2]] = None

\* a thread inside a RemovePod call: past r.lock.Lock(), its deferred unlocks not yet run
InRemovePod(t) == pc[t] # "idle" /\ args[t].op = "RemovePod"
\* a thread in the phases of RemovePod that follow the acquisition of the pod's lock
InRemovalPhases(t) == InRemovePod(t) /\ pc[t] \notin {"rp_lock_p", "ret"}
\* pods with no container in common
Independent(p, q) == p # q /\ State_PodContainers(p) \cap State_PodContainers(q) = {}
CanStartRemovePod(u, q) == ENABLED (RemovePod_LockRuntime(u) /\ args'[u].p = q)

\* C11 as stated: two RemovePod calls on the same pod are never both past lock
\* acquisition, while a RemovePod on an independent pod proceeds in parallel:
\* while one call is in its removal phases, a second goroutine can get past
\* the lock acquisition of a RemovePod on a pod sharing no container with it.
C11_IndependentPodsInParallel ==
    \A t, u \in Threads :
        /\ (t # u /\ InRemovePod(t) /\ InRemovePod(u)) => args[t].p # args[u].p
        /\ \A q \in Range(statePods) :
              (/\ t # u /\ InRemovalPhases(t) /\ Independent(args[t].p, q)
               /\ u \in callers /\ pc[u] = "idle" /\ ncalls < MaxCalls)
              => CanStartRemovePod(u, q)
\* C11 as amended: RemovePod calls are serialized whatever their pods are; the
\* runtime lock is held exclusively from the first step of a call to its
\* return, so while one goroutine is inside RemovePod no other goroutine is
\* inside any call of the API, and none can start a RemovePod, on any pod.
C11_RemovePodCallsSerialized ==
    \A t, u \in Threads :
        (t # u /\ InRemovePod(t))
        => /\ rLockW = t /\ rLockR = {}
           /\ pc[u] = "idle" /\ HoldsNothing(u)
           /\ \A q \in PodIDs : ~CanStartRemovePod(u, q)
C11_Witness ==
    \E t, u \in Threads :
        /\ t # u /\ InRemovalPhases(t) /\ pc[t] = "rp_cleanup"
        /\ args[t].p = "p1" /\ "p2" \in Range(statePods) /\ podValid["p2"]
        /\ Independent("p1", "p2")
        /\ u \in callers /\ pc[u] = "idle" /\ ncalls < MaxCalls

\* the calls of the pod API
PodAPI == {"NewPod", "RemovePod", "GetPod", "HasPod", "LookupPod", "Pods"}

\* C12: with the runtime invalid, a call of NewPod, RemovePod, GetPod, HasPod,
\* LookupPod or Pods returns ErrRuntimeStopped and no result, having made no
\* State Store or backend call (its only step is taking the runtime lock),
\* holding no pod or container lock, with the store, the validity flags and the
\* containers' states as it found them.
C12_StoppedRuntimeRefusesEveryCall ==
    \A t \in Threads :
        (pc[t] = "ret" /\ args[t].op \in PodAPI /\ ~rtValid)
        => /\ err[t] = ErrRuntimeStopped /\ val[t] = None
           /\ log[t] \in {<<<<"Lock", "r.lock">>>>, <<<<"RLock", "r.lock">>>>}
           /\ \A p \in PodIDs : podLock[p] # t
           /\ \A c \in Ctrs : ctrLock[c] # t
           /\ StoreAndFlagsUntouched(t)
           /\ ociState = pre[t].ociState /\ ctrState = pre[t].ctrState
C12_Witness ==
    \E t \in Threads :
        /\ AtReturn(t, "RemovePod") /\ ~rtValid /\ err[t] = ErrRuntimeStopped
        /\ args[t].removeCtrs /\ args[t].force /\ args[t].p = "p1"
        /\ ociState["c1"] = ContainerStateRunning /\ podValid["p1"]

\* a NewPod call seen at its return: the configuration its options give, whether
\* the cgroup parent passes for the configured manager, whether a pod was stored
Configured(t) == ApplyOptions(EmptyPodConfig, args[t].options)
GivenParent(t) == Configured(t).cfg.CgroupParent
IsSliceName(parent) == HasSuffix(Base(parent), Str_slice)
ParentAccepted(t) ==
    \/ GivenParent(t) = <<>> /\ cgroupManager \in {CgroupfsCgroupsManager, SystemdCgroupsManager}
    \/ GivenParent(t) # <<>> /\ cgroupManager = CgroupfsCgroupsManager /\ ~IsSliceName(GivenParent(t))
    \/ GivenParent(t) # <<>> /\ cgroupManager = SystemdCgroupsManager /\ IsSliceName(GivenParent(t))
PodsAdded(t) == Range(statePods) \ Range(pre[t].pods)
NewPodOnRunningRuntime(t) == AtReturn(t, "NewPod") /\ Undisturbed(t)
PersistsIffAccepted(t) ==
    /\ PodsAdded(t) # {} <=> (Configured(t).ok /\ ParentAccepted(t))
    /\ Cardinality(PodsAdded(t)) <= 1
    /\ (Configured(t).ok /\ ~ParentAccepted(t)) => err[t][1] = "ErrInvalidArg"
    /\ ~(Configured(t).ok /\ ParentAccepted(t))
         => /\ err[t] # NoErr
            /\ Made(t, "AddPod") = {}
            /\ StoreAndFlagsUntouched(t)

\* C13 as stated: NewPod stores a pod exactly when every option succeeds and the
\* cgroup parent is valid for the manager (cgroupfs: not a .slice basename;
\* systemd: a slice name; any other manager: rejected), a rejection being
\* ErrInvalidArg; on an option failure or a rejection AddPod is not called and
\* the store is unchanged; and with an accepted slice parent under systemd the
\* creation succeeds.
C13_NewPodPersistsIffValid ==
    \A t \in Threads :
        NewPodOnRunningRuntime(t)
        => /\ PersistsIffAccepted(t)
           /\ (/\ Configured(t).ok /\ cgroupManager = SystemdCgroupsManager
               /\ GivenParent(t) # <<>> /\ IsSliceName(GivenParent(t)))
              => err[t] = NoErr
\* C13 without its last part: what NewPod stores, and what it rejects
C13_StoresIffAccepted ==
    \A t \in Threads : NewPodOnRunningRuntime(t) => PersistsIffAccepted(t)
C13_Witness ==
    \E t \in Threads :
        /\ NewPodOnRunningRuntime(t) /\ cgroupManager = SystemdCgroupsManager
        /\ GivenParent(t) = Str_a_slice /\ Configured(t).ok
        /\ PodsAdded(t) = {"p3"} /\ Made(t, "AddPod") # {}
        /\ err[t] = ErrNotImplemented

\* a NewPod that stored pod p, and <parent>/<podID> for it: the given parent, or
\* the manager's default, in clean form, a slash and the pod's ID
Created(t, p) == NewPodOnRunningRuntime(t) /\ PodsAdded(t) = {p}
DefaultParent == IF cgroupManager = CgroupfsCgroupsManager THEN CgroupfsDefaultCgroupParent
                 ELSE SystemdDefaultCgroupParent
ParentSlashID(t, p) ==
    Clean(IF GivenParent(t) = <<>> THEN DefaultParent ELSE GivenParent(t)) \o <<"/">> \o IDStr(p)

\* C14 as stated: under cgroupfs and under systemd alike, a pod created with
\* UsePodCgroup and an accepted parent has CgroupPath = <parent>/<podID>, the
\* parent being the given one or the manager's default; a pod created without
\* UsePodCgroup has an empty CgroupPath.
C14_CgroupPathInBothModes ==
    \A t \in Threads : \A p \in PodIDs :
        Created(t, p)
        => /\ podConfig[p].CgroupParent = (IF GivenParent(t) = <<>> THEN DefaultParent
                                           ELSE GivenParent(t))
           /\ podCgroupPath[p] = (IF Configured(t).cfg.UsePodCgroup THEN ParentSlashID(t, p)
                                  ELSE <<>>)
\* C14 as the code has it: the path is set under systemd only
C14_CgroupPathUnderSystemdOnly ==
    \A t \in Threads : \A p \in PodIDs :
        Created(t, p)
        => /\ podConfig[p].CgroupParent = (IF GivenParent(t) = <<>> THEN DefaultParent
                                           ELSE GivenParent(t))
           /\ podCgroupPath[p] =
                (IF Configured(t).cfg.UsePodCgroup /\ cgroupManager = SystemdCgroupsManager
                 THEN ParentSlashID(t, p) ELSE <<>>)
C14_Witness ==
    \E t \in Threads :
        /\ Created(t, "p3") /\ cgroupManager = CgroupfsCgroupsManager
        /\ Configured(t).cfg.UsePodCgroup /\ podConfig["p3"].UsePodCgroup
        /\ GivenParent(t) = <<"/", "x">>
        /\ podCgroupPath["p3"] = <<>>

\* a Pods call whose AllPods answered, and a pod's place in the store's list
PodsAnswered(t) == AtReturn(t, "Pods") /\ Undisturbed(t)
StoreIndex(p) == CHOOSE i \in 1..Len(statePods) : statePods[i] = p
InPodsCall(t) == args[t].op = "Pods" /\ pc[t] # "ret"

\* C15: on a valid runtime Pods(filters...) returns, without error, exactly the
\* pods AllPods lists for which every given filter is true, in the store's
\* order and each once; with no filter it returns the store's list; and no
\* step of a Pods call changes the store, a validity flag, a pod or a container.
C15_PodsReturnsIntersection ==
    /\ [](\A t \in Threads :
            PodsAnswered(t)
            => /\ err[t] = NoErr
               /\ Range(val[t]) = {p \in Range(statePods) :
                                     \A i \in 1..Len(args[t].filters) :
                                        Filter(args[t].filters[i], p)}
               /\ \A i, j \in 1..Len(val[t]) :
                     i < j => StoreIndex(val[t][i]) < StoreIndex(val[t][j])
               /\ args[t].filters = <<>> => val[t] = statePods)
    /\ [][\A t \in Threads :
            (InPodsCall(t)' /\ pc'[t] # pc[t]) \/ (InPodsCall(t) /\ pc'[t] # pc[t])
            => UNCHANGED <<store, flags, podObj, backend>>]_vars
C15_Witness ==
    \E t \in Threads :
        /\ PodsAnswered(t) /\ args[t].filters = <<"hasContainers", "nameIsID">>
        /\ statePods = <<"p1", "p2", "p3">> /\ val[t] = <<"p1", "p2">>

\* the cgroup step of a RemovePod call on a pod with a cgroup path, under cgroupfs
RemovesCgroup(t) ==
    /\ InRemovePod(t) /\ PodPath(t) # <<>> /\ cgroupManager = CgroupfsCgroupsManager
PodKept(t) ==
    /\ args[t].p \in Range(statePods) /\ podValid[args[t].p]
    /\ Made(t, "RemovePod") = {}

\* C16: in RemovePod's cgroup removal under cgroupfs, for a pod with a cgroup
\* path: a load that finds the cgroup already deleted is no error, nothing is
\* deleted and the call goes on to the store's RemovePod; a load that succeeds
\* is followed by the cgroup's deletion; any other load error and a delete
\* error are returned, the pod staying in the store and valid.  Under systemd,
\* and for a pod without a cgroup path, no load and no delete is made.
C16_CgroupRemoval ==
    \A t \in Threads :
        /\ (InRemovePod(t) /\ (PodPath(t) = <<>> \/ cgroupManager = SystemdCgroupsManager))
           => Made(t, "cgroups.Load") = {} /\ Made(t, "cgroup.Delete") = {}
        /\ RemovesCgroup(t)
           => /\ err[t][1] # "ErrCgroupDeleted"
              /\ Made(t, "cgroup.Delete") # {} => Made(t, "cgroups.Load") # {}
              /\ pc[t] = "rp_cgdelete"
                   => Made(t, "cgroups.Load") # {} /\ PodPath(t) \in cgroupFs
              /\ pc[t] \in {"rp_rmpod", "rp_markpod"}
                   => /\ Made(t, "cgroups.Load") # {}
                      /\ PodPath(t) \notin cgroupFs
              /\ (pc[t] = "ret" /\ Made(t, "RemovePod") # {})
                   => Made(t, "cgroups.Load") # {} /\ PodPath(t) \notin cgroupFs
              /\ (pc[t] = "ret" /\ err[t] = ErrCollaborator("cgroups.Load"))
                   => PodKept(t) /\ Made(t, "cgroup.Delete") = {}
              /\ (pc[t] = "ret" /\ err[t] = ErrCollaborator("cgroup.Delete"))
                   => PodKept(t) /\ PodPath(t) \in cgroupFs
              /\ (pc[t] = "ret" /\ err[t] = NoErr)
                   => Made(t, "cgroups.Load") # {} /\ ~State_HasPod(IDStr(args[t].p))
C16_Witness ==
    \E t \in Threads :
        /\ RemovesCgroup(t) /\ pc[t] = "ret" /\ err[t] = NoErr
        /\ Made(t, "cgroups.Load") # {} /\ Made(t, "cgroup.Delete") = {}
        /\ PodPath(t) \notin cgroupFs /\ args[t].p \notin Range(statePods)

\* a RemovePod call that has left its forced stop phase behind, and one that
\* returned the error of a stop call
PastStopPhase(t) ==
    /\ InRemovePod(t)
    /\ \/ pc[t] \in {"rp_cleanup", "rp_teardown", "rp_delete", "rp_rmctrs", "rp_invalidate",
                     "rp_cgroup", "rp_cgdelete", "rp_rmpod", "rp_markpod"}
       \/ pc[t] = "ret" /\ (Made(t, "cleanup") # {} \/ Made(t, "RemovePodContainers") # {})
StopFailed(t) ==
    /\ AtReturn(t, "RemovePod")
    /\ err[t] \in {ErrCollaborator("stopContainer"), ErrCollaborator("execStopContainer")}
Stopped(t, c) == \E i \in MadeOn(t, "stopContainer", c) : i < Len(log[t]) \/ ~StopFailed(t)

\* C17: without force RemovePod makes no stopContainer and no execStopContainer
\* call.  With force, once the stop phase is over, stopContainer has been called
\* once on each member whose synced state was Running and on no other,
\* execStopContainer once on each member with exec sessions and on no other,
\* and all these calls precede every cleanup.  When a stop call fails RemovePod
\* returns its error at once: nothing was cleaned up, torn down, deleted or
\* removed from the store, the members stopped before stay stopped, the others
\* are as they were, and the pod and all containers are still valid.
C17_ForcedStopPhase ==
    \A t \in Threads :
        /\ (InRemovePod(t) /\ ~args[t].force)
           => Made(t, "stopContainer") = {} /\ Made(t, "execStopContainer") = {}
        /\ InRemovePod(t)
           => \A i \in Made(t, "stopContainer") \cup Made(t, "execStopContainer") :
                 \A j \in Made(t, "cleanup") : i < j
        /\ (PastStopPhase(t) /\ args[t].force)
           => \A c \in MembersAtCall(t) :
                 /\ Cardinality(MadeOn(t, "stopContainer", c)) =
                       (IF pre[t].ociState[c] = ContainerStateRunning THEN 1 ELSE 0)
                 /\ Cardinality(MadeOn(t, "execStopContainer", c)) =
                       (IF execSessions[c] THEN 1 ELSE 0)
        /\ StopFailed(t)
           => /\ log[t][Len(log[t])][1] \in {"stopContainer", "execStopContainer"}
              /\ \A call \in {"cleanup", "teardownStorage", "delete", "RemovePodContainers",
                              "RemovePod", "invalidate"} : Made(t, call) = {}
              /\ StoreAndFlagsUntouched(t)
              /\ \A c \in MembersAtCall(t) :
                    ociState[c] = (IF Stopped(t, c) THEN ContainerStateStopped
                                   ELSE pre[t].ociState[c])
C17_Witness ==
    \E t \in Threads :
        /\ StopFailed(t) /\ Len(ctrs[t]) = 2
        /\ err[t] = ErrCollaborator("stopContainer")
        /\ Stopped(t, ctrs[t][1]) /\ ociState[ctrs[t][1]] = ContainerStateStopped
        /\ ~Stopped(t, ctrs[t][2]) /\ ociState[ctrs[t][2]] = ContainerStateRunning
        /\ MadeOn(t, "stopContainer", ctrs[t][2]) # {}

\* a RemovePod call that returned the error of a cleanup, teardownStorage or delete call
RemovalCalls == {"cleanup", "teardownStorage", "delete"}
TeardownFailed(t) ==
    /\ AtReturn(t, "RemovePod")
    /\ err[t] \in {ErrCollaborator(call) : call \in RemovalCalls}
\* the calls the removal loop makes on a container in state `state`, in order
RemovalCallsFor(state) ==
    IF state = ContainerStateConfigured THEN <<"cleanup", "teardownStorage">>
    ELSE <<"cleanup", "teardownStorage", "delete">>
CallsOn(t, c) == SelectSeq(log[t], LAMBDA e : e[1] \in RemovalCalls /\ e[2] = c)
CallNames(s) == [i \in 1..Len(s) |-> s[i][1]]

\* C18: when cleanup, teardownStorage or delete fails on the k-th member,
\* RemovePod returns that error at once (the failing call is the last step it
\* makes); the members before k have had all their removal calls, the members
\* after k none, RemovePodContainers was not called, every member is still in
\* the store and valid, and the pod is still in the store and valid.
C18_TeardownFailureAtK ==
    /\ [](\A t \in Threads :
            TeardownFailed(t)
            => /\ log[t][Len(log[t])] = <<err[t][2], ctrs[t][idx[t]]>>
               /\ \A i \in 1..Len(ctrs[t]) :
                     /\ i < idx[t] => /\ CallNames(CallsOn(t, ctrs[t][i])) =
                                            RemovalCallsFor(ctrState[ctrs[t][i]])
                                      /\ \A e \in Range(CallsOn(t, ctrs[t][i])) : e \in done
                     /\ i > idx[t] => CallsOn(t, ctrs[t][i]) = <<>>
               /\ \A call \in {"RemovePodContainers", "invalidate", "cgroups.Load",
                               "cgroup.Delete", "RemovePod"} : Made(t, call) = {}
               /\ Range(ctrs[t]) = MembersAtCall(t)
               /\ \A c \in MembersAtCall(t) : c \in stateCtrs /\ ctrValid[c]
               /\ args[t].p \in Range(statePods) /\ podValid[args[t].p]
               /\ StoreAndFlagsUntouched(t))
    /\ [][\A t \in Threads :
            (pc[t] \in {"rp_cleanup", "rp_teardown", "rp_delete"} /\ failures' # failures)
            => pc'[t] = "ret" /\ err'[t] \in {ErrCollaborator(call) : call \in RemovalCalls}]_vars
C18_Witness ==
    \E t \in Threads :
        /\ TeardownFailed(t) /\ err[t] = ErrCollaborator("delete")
        /\ Len(ctrs[t]) = 2 /\ idx[t] = 2
        /\ <<"delete", ctrs[t][1]>> \in done /\ <<"teardownStorage", ctrs[t][2]>> \in done
        /\ stateCtrs = Ctrs /\ ctrValid[ctrs[t][1]]

\* the removal calls of a whole teardown loop over the list cs, and those made so far
RECURSIVE RemovalSchedule(_)
RemovalSchedule(cs) ==
    IF cs = <<>> THEN <<>>
    ELSE [i \in 1..Len(RemovalCallsFor(ctrState[Head(cs)])) |->
             <<RemovalCallsFor(ctrState[Head(cs)])[i], Head(cs)>>]
         \o RemovalSchedule(Tail(cs))
RemovalLog(t) == SelectSeq(log[t], LAMBDA e : e[1] \in RemovalCalls)
IsPrefix(s, r) == Len(s) <= Len(r) /\ SubSeq(r, 1, Len(s)) = s
PastTeardownLoop(t) ==
    /\ InRemovePod(t)
    /\ \/ pc[t] \in {"rp_rmctrs", "rp_invalidate", "rp_cgroup", "rp_cgdelete", "rp_rmpod",
                     "rp_markpod"}
       \/ pc[t] = "ret" /\ Made(t, "RemovePodContainers") # {}

\* C19: the removal calls of a RemovePod are made member by member in the order
\* of the list, cleanup, then teardownStorage, then delete for each, a member's
\* calls all preceding the next member's; delete is made on a member exactly
\* when its state is not Configured, cleanup and teardownStorage on every member.
C19_TeardownOrder ==
    \A t \in Threads :
        InRemovePod(t)
        => /\ IsPrefix(RemovalLog(t), RemovalSchedule(ctrs[t]))
           /\ PastTeardownLoop(t)
                => /\ RemovalLog(t) = RemovalSchedule(ctrs[t])
                   /\ \A c \in MembersAtCall(t) :
                         /\ Cardinality(MadeOn(t, "cleanup", c)) = 1
                         /\ Cardinality(MadeOn(t, "teardownStorage", c)) = 1
                         /\ Cardinality(MadeOn(t, "delete", c)) =
                               (IF ctrState[c] = ContainerStateConfigured THEN 0 ELSE 1)
C19_Witness ==
    \E t \in Threads :
        /\ PastTeardownLoop(t) /\ Len(ctrs[t]) = 2
        /\ ctrState[ctrs[t][1]] = ContainerStateConfigured
        /\ ctrState[ctrs[t][2]] # ContainerStateConfigured
        /\ Len(RemovalLog(t)) = 5
        /\ MadeOn(t, "delete", ctrs[t][1]) = {} /\ MadeOn(t, "delete", ctrs[t][2]) # {}

\* C20: in every sequence of calls, with any failures: a container is marked
\* invalid only when RemovePodContainers has removed it from the store, a pod
\* is marked invalid only when the store's RemovePod has removed it, and a pod
\* is removed from the store only when none of its containers is in the store;
\* so an invalid pod or container is never in the store, and every container in
\* the store belongs to a pod that is in the store.
C20_InvalidImpliesAbsent ==
    /\ [](/\ \A c \in Ctrs : ~ctrValid[c] => c \notin stateCtrs
          /\ \A p \in PodIDs : ~podValid[p] => p \notin Range(statePods)
          /\ \A c \in stateCtrs : ctrPodOf[c] \in Range(statePods))
    /\ [][/\ \A c \in Ctrs :
               (ctrValid[c] /\ ~ctrValid'[c])
               => /\ c \notin stateCtrs
                  /\ \E t \in Threads : InRemovePod(t) /\ Made(t, "RemovePodContainers") # {}
          /\ \A p \in PodIDs :
               (podValid[p] /\ ~podValid'[p])
               => /\ p \notin Range(statePods)
                  /\ \E t \in Threads : InRemovePod(t) /\ MadeOn(t, "RemovePod", p) # {}
          /\ \A p \in PodIDs :
               (p \in Range(statePods) /\ p \notin Range(statePods'))
               => State_PodContainers(p) = {}]_vars
C20_Witness ==
    /\ \A t \in Threads : pc[t] = "idle"
    /\ failures = 1
    /\ ~ctrValid["c1"] /\ ~ctrValid["c2"] /\ stateCtrs = {"c3"}
    /\ "p1" \in Range(statePods) /\ podValid["p1"]

\* a RemovePod failure that comes from a mutation phase: a stop call (or the sync
\* that follows it), a removal call, the store's RemovePodContainers, the cgroup
\* step, the store's RemovePod
MutationPhaseCalls ==
    TeardownCalls \cup {"RemovePodContainers", "cgroups.Load", "cgroup.Delete", "RemovePod"}
UnknownManagerErr == ErrInvalidArg("unknown cgroups manager")
MutationPhaseFailure(e, steps) ==
    \/ e[1] = "collaborator" /\ e[2] \in MutationPhaseCalls
    \/ /\ e = ErrCollaborator("syncContainer")
       /\ \E i \in 1..Len(steps) : steps[i][1] = "stopContainer"
    \/ e = UnknownManagerErr
CgroupOrPodPhaseFailure(e) ==
    \/ e \in {ErrCollaborator("cgroups.Load"), ErrCollaborator("cgroup.Delete"),
              ErrCollaborator("RemovePod")}
    \/ e = UnknownManagerErr
\* a retry, seen at its return, of a call that failed in a mutation phase
IsRetry(t) == args[t].op = "RemovePod" /\ "retryOf" \in DOMAIN args[t]
RetryAtReturn(t) ==
    /\ pc[t] = "ret" /\ IsRetry(t)
    /\ MutationPhaseFailure(args[t].retryOf.err, args[t].retryOf.log)
FailedInMutationPhase(t) ==
    AtReturn(t, "RemovePod") /\ MutationPhaseFailure(err[t], log[t])
UnsupportedManager(t) ==
    PodPath(t) # <<>> /\ cgroupManager \notin {CgroupfsCgroupsManager, SystemdCgroupsManager}
RemovalCompleted(t) ==
    /\ err[t] = NoErr
    /\ args[t].p \notin Range(statePods) /\ ~podValid[args[t].p]
    /\ State_PodContainers(args[t].p) = {}
    /\ \A c \in Ctrs : ctrPodOf[c] = args[t].p => ~ctrValid[c]
\* the steps of a retry that finds no member: the two locks, PodContainers, the
\* store's RemovePodContainers (called on the empty pod too), then the cgroup
\* step and the pod's removal; no container is locked, synced, stopped or torn down
DirectlyToCgroupAndPod(t) ==
    /\ MembersAtCall(t) = {} /\ ctrs[t] = <<>>
    /\ \A i \in 1..Len(log[t]) :
          log[t][i][1] \in {"Lock", "PodContainers", "RemovePodContainers", "cgroups.Load",
                            "cgroup.Delete", "RemovePod", "invalidate"}
    /\ \A c \in Ctrs : MadeOn(t, "Lock", c) = {} /\ ctrLock[c] # t
RetryFindsPodUsable(t) ==
    /\ FailedInMutationPhase(t) => args[t].p \in Range(statePods) /\ podValid[args[t].p]
    /\ RetryAtReturn(t)
       => /\ err[t] # ErrPodRemoved
          /\ pre[t].podValid[args[t].p] /\ args[t].p \in Range(pre[t].pods)
          /\ (CgroupOrPodPhaseFailure(args[t].retryOf.err) /\ Undisturbed(t))
                => DirectlyToCgroupAndPod(t)

\* C21 as stated: a RemovePod that fails in a mutation phase leaves the pod valid
\* and in the store, its retry is not refused with ErrPodRemoved, and a retry
\* on which every backend and store call succeeds completes the removal and
\* returns success (after a failure in the cgroup phase it finds no member and
\* goes directly to the cgroup step and the pod's removal).
C21_RetryCompletesRemoval ==
    \A t \in Threads :
        /\ RetryFindsPodUsable(t)
        /\ (RetryAtReturn(t) /\ Undisturbed(t)) => RemovalCompleted(t)
\* C21 as amended: the same under the cgroupfs and systemd managers and for a
\* pod without cgroup path; under any other manager value a pod with a cgroup
\* path is not removed by the retry either: the retry fails with ErrInvalidArg
\* at the cgroup step, the pod staying in the store and valid, its members
\* removed.
C21_RetryCompletesUnderSupportedManager ==
    \A t \in Threads :
        /\ RetryFindsPodUsable(t)
        /\ (RetryAtReturn(t) /\ Undisturbed(t))
           => IF UnsupportedManager(t)
              THEN /\ err[t] = UnknownManagerErr
                   /\ args[t].p \in Range(statePods) /\ podValid[args[t].p]
                   /\ State_PodContainers(args[t].p) = {}
              ELSE RemovalCompleted(t)
\* a retry that succeeds after the deletion of the cgroup failed: no member left
C21_Witness ==
    \E t \in Threads :
        /\ RetryAtReturn(t) /\ err[t] = NoErr
        /\ args[t].retryOf.err = ErrCollaborator("cgroup.Delete")
        /\ args[t].p = "p1" /\ "p1" \in Range(pre[t].pods) /\ "p1" \notin Range(statePods)
        /\ MembersAtCall(t) = {} /\ Made(t, "cgroup.Delete") # {}

\* a RemovePod call, seen at its return, on a pod object an earlier RemovePod
\* removed (p.valid is cleared by nothing else), the runtime being valid
OnRemovedPod(t) ==
    /\ AtReturn(t, "RemovePod") /\ rtValid
    /\ ~pre[t].podValid[args[t].p]
\* the step in which thread t gets to the successful return of a RemovePod
SucceedsRemovePod(t) ==
    /\ pc[t] # "ret" /\ pc'[t] = "ret"
    /\ args'[t].op = "RemovePod" /\ err'[t] = NoErr
\* the step in which thread t, inside RemovePod, makes a State Store or backend call
StoreOrBackendCalls == MutationPhaseCalls \cup {"PodContainers", "syncContainer", "ContainerInUse"}
CallsStoreOrBackend(t) ==
    /\ InRemovePod(t) /\ Len(log'[t]) = Len(log[t]) + 1
    /\ log'[t][Len(log'[t])][1] \in StoreOrBackendCalls
\* a stop or removal call made again on a container it was already made on
RepeatsTeardown(t) ==
    /\ InRemovePod(t) /\ Len(log'[t]) = Len(log[t]) + 1
    /\ log'[t][Len(log'[t])][1] \in TeardownCalls
    /\ log'[t][Len(log'[t])] \in done

\* what a RemovePod on a removed pod does, and when a RemovePod succeeds
RefusedOnRemovedPod(t) ==
    OnRemovedPod(t)
    => /\ err[t] = ErrPodRemoved
       /\ log[t] = <<<<"Lock", "r.lock">>, <<"Lock", args[t].p>>>>
       /\ \A c \in Ctrs : ctrLock[c] # t
       /\ StoreAndFlagsUntouched(t)
       /\ ociState = pre[t].ociState /\ ctrState = pre[t].ctrState
OnlyValidPodsAreWorkedOn ==
    /\ \A t \in Threads :
          /\ SucceedsRemovePod(t) => podValid[args[t].p] /\ ~podValid'[args[t].p]
          /\ CallsStoreOrBackend(t) => podValid[args[t].p]
    /\ \A p \in PodIDs \ freeIDs : ~podValid[p] => ~podValid'[p]

\* C22 as stated: once a RemovePod(p) has succeeded, every other RemovePod(p),
\* on a valid runtime, returns ErrPodRemoved having made no State Store or
\* backend call; a RemovePod succeeds only on a valid pod and leaves it
\* invalid, and the valid flag of a created pod never goes back from false to
\* true, so at most one RemovePod per pod succeeds; and over all the RemovePod
\* calls on a pod no stop or removal call is made twice on a container.
C22_TeardownAtMostOnce ==
    /\ [](\A t \in Threads : RefusedOnRemovedPod(t))
    /\ [][/\ OnlyValidPodsAreWorkedOn
          /\ \A t \in Threads : ~RepeatsTeardown(t)]_vars
\* C22 as amended: the same, except that a stop or removal call is made again on
\* a container when an earlier RemovePod on its pod failed after that call (a
\* State Store or backend failure) and the call is repeated; where no
\* store or backend call has failed, none is made twice.
C22_RemovedPodStaysRemoved ==
    /\ [](\A t \in Threads : RefusedOnRemovedPod(t))
    /\ [][/\ OnlyValidPodsAreWorkedOn
          /\ \A t \in Threads : RepeatsTeardown(t) => failures > 0]_vars
\* the second of two goroutines is refused on the pod the first has removed
C22_Witness ==
    /\ AtReturn("t2", "RemovePod") /\ err["t2"] = ErrPodRemoved
    /\ args["t2"].p = "p1" /\ args["t2"].removeCtrs /\ args["t2"].force
    /\ ~podValid["p1"] /\ "p1" \notin Range(statePods)
    /\ pc["t1"] = "idle" /\ ncalls = 2 /\ rtValid
    /\ <<"cleanup", "c1">> \in done /\ <<"cleanup", "c2">> \in done

\* the pods other than p and the containers that are no members of p
OtherPods(p) == PodIDs \ {p}
NonMembers(p) == {c \in Ctrs : ctrPodOf[c] # p}
\* a step of thread t inside RemovePod: its first step, a step of the body, its return
RemovePodStep(t) ==
    /\ args[t].op = "RemovePod" \/ args'[t].op = "RemovePod"
    /\ pc'[t] # pc[t] \/ idx'[t] # idx[t] \/ log'[t] # log[t]
RemovePodStepOn(t) == IF args[t].op = "RemovePod" THEN args[t].p ELSE args'[t].p
\* what a step leaves alone: the other pods, the containers of other pods, their cgroups
LeavesOthersAlone(p) ==
    /\ \A q \in OtherPods(p) :
          /\ (q \in Range(statePods)) = (q \in Range(statePods'))
          /\ podValid'[q] = podValid[q] /\ podLock'[q] = podLock[q]
          /\ podConfig'[q] = podConfig[q] /\ podCgroupPath'[q] = podCgroupPath[q]
    /\ \A c \in NonMembers(p) :
          /\ (c \in stateCtrs) = (c \in stateCtrs')
          /\ ctrValid'[c] = ctrValid[c] /\ ctrLock'[c] = ctrLock[c]
          /\ ociState'[c] = ociState[c] /\ ctrState'[c] = ctrState[c]
          /\ execSessions'[c] = execSessions[c]
          /\ \A e \in done' \ done : e[2] # c
    /\ \A path \in cgroupFs \ {podCgroupPath[p]} : path \in cgroupFs'
    /\ \A i \in 1..Len(statePods) : \A j \in 1..Len(statePods') :
          (i < j /\ statePods[i] # p /\ statePods'[j] # p) => statePods[i] # statePods'[j]
    /\ rtValid' = rtValid /\ depEdges' = depEdges /\ ctrPodOf' = ctrPodOf
\* the same, over a whole call, at its return
OthersAsFound(t) ==
    /\ \A q \in OtherPods(args[t].p) :
          /\ (q \in Range(statePods)) = (q \in Range(pre[t].pods))
          /\ podValid[q] = pre[t].podValid[q] /\ podLock[q] # t
    /\ \A c \in NonMembers(args[t].p) :
          /\ (c \in stateCtrs) = (c \in pre[t].ctrs)
          /\ ctrValid[c] = pre[t].ctrValid[c] /\ ctrLock[c] # t
          /\ ociState[c] = pre[t].ociState[c] /\ ctrState[c] = pre[t].ctrState[c]
          /\ \A call \in StoreOrBackendCalls \cup {"Lock"} : MadeOn(t, call, c) = {}
    /\ \A q \in OtherPods(args[t].p) :
          \A call \in StoreOrBackendCalls \cup {"Lock"} : MadeOn(t, call, q) = {}

\* C24: RemovePod(p, ...), whether it succeeds or fails, never removes from the
\* store, invalidates, stops, tears down, deletes or locks a pod other than p
\* or a container that is no member of p (containers of other pods that depend
\* on members included): no step of the call changes any of these, and at its
\* return the other pods and the non-member containers are as the call found
\* them, no lock of theirs taken and no call made on them.
C24_OnlyPodAndMembersChange ==
    /\ [](\A t \in Threads : InRemovePod(t) => OthersAsFound(t))
    /\ [][\A t \in Threads : RemovePodStep(t) => LeavesOthersAlone(RemovePodStepOn(t))]_vars
\* a forced removal of p1 that went through, p2 and its container as they were
C24_Witness ==
    \E t \in Threads :
        /\ AtReturn(t, "RemovePod") /\ err[t] = NoErr /\ args[t].p = "p1" /\ args[t].force
        /\ <<"stopContainer", "c2">> \in done /\ <<"delete", "c1">> \in done
        /\ stateCtrs = {"c3"} /\ ctrValid["c3"] /\ ociState["c3"] = ContainerStateRunning
        /\ statePods = <<"p2">> /\ podValid["p2"] /\ ~podValid["p1"]
        /\ podLock["p2"] = None /\ ctrLock["c3"] = None

\* no lock of any kind is held
AllLocksFree ==
    /\ rLockW = None /\ rLockR = {}
    /\ \A p \in PodIDs : podLock[p] = None
    /\ \A c \in Ctrs : ctrLock[c] = None
\* thread t, inside RemovePod, waits for the lock of its next container, which
\* a holder has and is free to release
AwaitsHolder(t) ==
    /\ pc[t] = "rp_lock_c" /\ idx[t] <= Len(ctrs[t])
    /\ ctrLock[Ctr(t)] \in Holders
    /\ ENABLED HolderUnlock(ctrLock[Ctr(t)])
\* every goroutine inside a call can take its next step, or waits for a holder
NoDeadlock ==
    \A t \in Threads : pc[t] # "idle" => (ENABLED Continue(t)) \/ AwaitsHolder(t)

\* no call is in flight and no lock is held
Quiescent == AllLocksFree /\ \A t \in Threads : pc[t] = "idle"

\* C23: with goroutines calling NewPod, RemovePod, GetPod, HasPod, LookupPod and
\* Pods concurrently, beside goroutines that each hold the lock of one
\* container and release it, no deadlock is reachable (a goroutine inside a
\* call can always take its next step, or waits for a container lock whose
\* holder can release it); and under fair scheduling, every State Store and
\* backend call returning, every call returns and all locks become free:
\* whenever a call is in flight or a lock is held, a state follows in which no
\* call is in flight and no lock is held.
C23_NoDeadlockAndTermination ==
    /\ []NoDeadlock
    /\ (~Quiescent) ~> Quiescent
\* RemovePod holds the lock of its first container and waits for the second,
\* which a holder has
C23_Witness ==
    \E t \in Threads, h \in Holders :
        /\ InRemovePod(t) /\ pc[t] = "rp_lock_c" /\ Len(ctrs[t]) = 2 /\ idx[t] = 2
        /\ ctrLock[ctrs[t][1]] = t /\ ctrLock[ctrs[t][2]] = h
        /\ rLockW = t /\ podLock["p1"] = t
        /\ ~ENABLED Continue(t)
====
